---- MODULE Spec2Model ----
(***************************************************************************)
(* Model of the IPT manager of tor-hsservice (ipt_mgr.rs) together with    *)
(* the part of the publisher that writes into the shared PublishIptSet.    *)
(*                                                                         *)
(* Time is the monotonic clock in whole seconds.  The manager's critical   *)
(* section (the block of run_once that holds the PublishIptSet lock) is    *)
(* modelled step by step: import_new_expiry_times, then one step per call  *)
(* of idempotently_progress_things_now, then compute_iptsetstatus_publish  *)
(* with the store and expire_old_expiry_times.  The publisher only gets at *)
(* the shared set while the manager does not hold the lock.                *)
(***************************************************************************)
EXTENDS Integers, Sequences, FiniteSets, TLC

\* ---------------------------------------------------------------- bounds

\* num_intro_points is drawn from 1..MaxN
MaxN == 2
\* relays in the directory, all of them HS-intro candidates
NRelays == 3
\* lids the random generator hands out (fresh ones: 1, 2, ...)
MaxLid == 3
\* how often the clock is advanced in one behaviour
MaxTicks == 2
\* how many calls of the keystore, the replay log, the state store or the
\* directory fail in one behaviour
MaxFaults == 1
\* how many status updates, configurations, directory events and
\* publications arrive in one behaviour
MaxEvents == 3
\* how often IptManager::new is called again in one behaviour
MaxStartups == 2
\* events that the behaviours with a shutdown and a restart may see
LifeEvents == 1
\* calls of start_accepting counted for one establisher: MaxCalls stands for
\* that many or more
MaxCalls == 2

\* ------------------------------------------------------ program constants

IPT_PUBLISH_UNCERTAIN == 1800
IPT_PUBLISH_CERTAIN == 43200
STORAGE_RETRY == 60
UPLOAD_TIMEOUT == 300
DAY == 86400
\* slop added by PublishIptSet::note_publication_attempt
IPT_PUBLISH_EXPIRY_SLOP == 300
\* the retry delay IptStoreError::log_retry_max hands to run_once
STORE_RETRY_WAIT == 60

\* Option::None of an Instant or of the IptSet; Err(()) of a Result
None == -1
ErrUnit == -2
\* merge_join_subset_by has not been called
NoJoin == [ pc |-> "none", bigger |-> << >>, smaller |-> << >>,
            map |-> << >>, pos |-> 1, out |-> << >> ]

\* publish_set.ipts: Option<IptSet>
NoIptSet == [ some |-> FALSE, ipts |-> << >>, lifetime |-> 0 ]
SomeIptSet(lids, lifetime) == [ some |-> TRUE, ipts |-> lids, lifetime |-> lifetime ]

Relays == 1..NRelays

VARIABLES
    now,                            \* runtime.now(), seconds
    ticks,                          \* clock advances so far (bounds the run)
    current_config,                 \* State.current_config.num_intro_points
    irelays,                        \* State.irelays
    last_irelay_selection_outcome,  \* "Ok" or "Err"
    pc,                             \* where the manager task is
    wake,                           \* earliest deadline tracked by TrackingNow
    publish_set,                    \* the shared PublishIptSet
    keystore,                       \* key specifiers present in the keystore
    storage,                        \* the persisted IPT inventory
    nextLid,                        \* next lid thread_rng() will produce
    faults,                         \* I/O and directory failures so far
    events,                         \* status, config, directory events so far
    accept_calls,                   \* lid -> calls of start_accepting on its establisher
    loop_count,                     \* loop_limit: calls of progress in this run_once
    selected,                       \* what the last select_biased! found ready and took
    key_id,                         \* key specifier -> the key stored under it
    estabs,                         \* the establishers alive (MockEstabs)
    status_tasks,                   \* (epoch, lid) of the status-forwarding tasks alive
    shut_closed,                    \* the shutdown broadcast has been closed
    managers,                       \* IptManager objects alive
    epoch,                          \* successful calls of IptManager::new so far
    last_startup,                   \* result of the last call of IptManager::new
    startups,                       \* further calls of IptManager::new so far
    estabs_inventory,               \* estabs_inventory() as taken at shutdown
    publish_status,                 \* the watch channel of the reactor's PublishStatus
    last_uploaded,                  \* ReactorState.last_uploaded
    reattempt_upload,               \* the watch channel to the reminder task
    schedule_upload,                \* a reminder is unread on schedule_upload_rx
    reminder,                       \* where the reminder task is
    dirty,                          \* upload_all finds a Dirty HsDir to upload to
    upload_tasks,                   \* upload tasks spawned and not yet complete
    netdir,                         \* Inner.netdir
    time_periods,                   \* Inner.time_periods
    tasks,                          \* the upload tasks that are running
    wallclock,                      \* runtime.wallclock(), seconds
    svc_config,                     \* the OnionServiceConfig the service runs with
    reconfigured,                   \* for_transition_to: its last call and result
    join                            \* merge_join_subset_by: a call and what it yielded

\* what only the start and the end of a manager touch
lifevars == << shut_closed, managers, epoch, last_startup, startups,
               estabs_inventory >>

\* the service's configuration and its last reconfiguration; the join helper
service_vars == << svc_config, reconfigured, join >>

\* the publisher's view of the HsDirs, and its upload tasks
hsdir_vars == << netdir, time_periods, tasks >>

\* the state of the publisher's reactor
reactor_vars == << publish_status, last_uploaded, reattempt_upload,
                  schedule_upload, reminder, dirty, upload_tasks, hsdir_vars,
                  wallclock, service_vars >>

vars == << now, ticks, current_config, irelays, last_irelay_selection_outcome,
           pc, wake, publish_set, keystore, storage, nextLid, faults,
           events, accept_calls, loop_count, selected, key_id, estabs,
           status_tasks, lifevars, reactor_vars >>

\* ---------------------------------------------------------------- helpers

Min(S) == CHOOSE x \in S : \A y \in S : x <= y

MinOrNone(S) == IF S = {} THEN None ELSE Min(S)

Range(s) == { s[i] : i \in 1..Len(s) }

\* index of the first element of s with P, 0 if there is none
FirstIdx(s, P(_)) ==
    IF \E i \in 1..Len(s) : P(s[i])
    THEN CHOOSE i \in 1..Len(s) : P(s[i]) /\ \A j \in 1..(i-1) : ~P(s[j])
    ELSE 0

\* every Ipt of every relay
AllIpts(irs) == UNION { Range(irs[i].ipts) : i \in 1..Len(irs) }

AllLids(irs) == { ipt.lid : ipt \in AllIpts(irs) }

\* ------------------------------------------------------- IptRelay and Ipt

IsCurrent(ipt) == ipt.is_current

\* IptRelay::current_ipt: index of the first current IPT, 0 for None
current_ipt(ir) == FirstIdx(ir.ipts, IsCurrent)

\* IptRelay::should_retire
should_retire(ir, t) == t > ir.planned_retirement

\* Ipt::is_good
is_good(ipt) == ipt.kind = "Good"

\* IptManager::current_ipts: the current IPT of each relay that has one
current_ipts(irs) ==
    { irs[i].ipts[current_ipt(irs[i])] :
        i \in { j \in 1..Len(irs) : current_ipt(irs[j]) # 0 } }

\* IptManager::good_ipts
good_ipts(irs) == { ipt \in current_ipts(irs) : is_good(ipt) }

\* IptManager::target_n_intro_points
target_n_intro_points == current_config

\* a limit of three relays per wanted intro point instead of two
max_n_intro_relays_times3 == target_n_intro_points * 3

\* IptManager::max_n_intro_relays
max_n_intro_relays == target_n_intro_points * 2

\* OnionServiceConfig::ipt_relay_rotation_time is DAY * 4 ..= DAY * 7; the
\* durations gen_range_checked is let to draw from it here.  (Relays chosen
\* at different times get different planned retirements also with one.)
ipt_relay_rotation_time == { DAY * 4 }

\* Ipt::start_establisher makes every new Ipt Establishing, started now,
\* never yet published
new_ipt(lid, t, cur) ==
    [ lid |-> lid, kind |-> "Establishing", started |-> t,
      time_to_establish |-> None,
      last_descriptor_expiry_including_slop |-> None,
      is_current |-> cur ]

\* the two key specifiers of an IPT (IptKeyRole::KHssNtor and ::KSid)
ipt_keys(lid) == { << "KHssNtor", lid >>, << "KSid", lid >> }

\* get_or_gen_key! run for K_sid only
get_or_gen_keys_sid_only(ks, lid) == ks \cup { << "KSid", lid >> }

\* get_or_gen_key! run for K_hss_ntor only
get_or_gen_keys_ntor_only(ks, lid) == ks \cup { << "KHssNtor", lid >> }

\* get_or_gen_key! for both roles: the keys are in the keystore afterwards
get_or_gen_keys(ks, lid) == ks \cup ipt_keys(lid)

\* a start_establisher whose IPT is taken even though an I/O error came up
start_establisher_ignoring_errors(ks, lid, t, cur, fault) ==
    [ ok |-> TRUE,
      keystore |-> IF fault = "keystore" THEN ks ELSE get_or_gen_keys(ks, lid),
      ipt |-> new_ipt(lid, t, cur) ]

\* Ipt::start_establisher for a fresh lid under the I/O fault `fault`.
\* A keystore error fails the first keymgr.get, before anything is stored;
\* a replay log error comes after both keys were stored.
start_establisher(ks, lid, t, cur, fault) ==
    IF fault = "keystore"
    THEN [ ok |-> FALSE, keystore |-> ks, ipt |-> new_ipt(lid, t, cur) ]
    ELSE [ ok |-> fault = "none",
           keystore |-> get_or_gen_keys(ks, lid),
           ipt |-> new_ipt(lid, t, cur) ]

\* ------------------------------------------- State::handle_ipt_status_update

\* an update that takes the status and overlooks wants_to_retire
tracked_status_update_status_only(ipt, update, wants_to_retire, t) ==
    LET started == IF ipt.kind = "Good" THEN ErrUnit ELSE ipt.started
    IN  CASE update = "Establishing" ->
               [ ipt EXCEPT !.kind = "Establishing",
                            !.started = IF started = ErrUnit THEN t ELSE started,
                            !.time_to_establish = None ]
          [] update = "Good" ->
               [ ipt EXCEPT !.kind = "Good",
                            !.started = None,
                            !.time_to_establish =
                                IF started = ErrUnit \/ t < started
                                THEN ErrUnit ELSE t - started ]
          [] OTHER ->
               [ ipt EXCEPT !.kind = "Faulty",
                            !.started = started,
                            !.time_to_establish = None ]

\* an update to Establishing that starts the clock of the IPT afresh
tracked_status_update_restarting(ipt, update, wants_to_retire, t) ==
    LET started == IF ipt.kind = "Good" THEN ErrUnit ELSE ipt.started
        cur == IF wants_to_retire THEN FALSE ELSE ipt.is_current
    IN  CASE update = "Establishing" ->
               [ ipt EXCEPT !.kind = "Establishing",
                            !.started = t,
                            !.time_to_establish = None,
                            !.is_current = cur ]
          [] update = "Good" ->
               [ ipt EXCEPT !.kind = "Good",
                            !.started = None,
                            !.time_to_establish =
                                IF started = ErrUnit \/ t < started
                                THEN ErrUnit ELSE t - started,
                            !.is_current = cur ]
          [] OTHER ->
               [ ipt EXCEPT !.kind = "Faulty",
                            !.started = started,
                            !.time_to_establish = None,
                            !.is_current = cur ]

\* the new TrackedStatus of one Ipt
tracked_status_update(ipt, update, wants_to_retire, t) ==
    LET started == IF ipt.kind = "Good" THEN ErrUnit ELSE ipt.started
        cur == IF wants_to_retire THEN FALSE ELSE ipt.is_current
    IN  CASE update = "Establishing" ->
               [ ipt EXCEPT !.kind = "Establishing",
                            !.started = IF started = ErrUnit THEN t ELSE started,
                            !.time_to_establish = None,
                            !.is_current = cur ]
          [] update = "Good" ->
               [ ipt EXCEPT !.kind = "Good",
                            !.started = None,
                            !.time_to_establish =
                                IF started = ErrUnit \/ t < started
                                THEN ErrUnit ELSE t - started,
                            !.is_current = cur ]
          [] OTHER ->
               [ ipt EXCEPT !.kind = "Faulty",
                            !.started = started,
                            !.time_to_establish = None,
                            !.is_current = cur ]

\* State::handle_ipt_status_update: an update for a lid we no longer hold
\* changes nothing
handle_ipt_status_update(irs, lid, update, wants_to_retire, t) ==
    [ i \in 1..Len(irs) |->
        [ irs[i] EXCEPT !.ipts =
            [ k \in 1..Len(irs[i].ipts) |->
                IF irs[i].ipts[k].lid = lid
                THEN tracked_status_update(irs[i].ipts[k], update,
                                           wants_to_retire, t)
                ELSE irs[i].ipts[k] ] ] ]

\* ---------------------------- IptManager::idempotently_progress_things_now

\* rotating out whatever the number of Good IPTs
rotate_out_idx_any_count(irs, t) ==
    FirstIdx(irs, LAMBDA ir : should_retire(ir, t) /\ current_ipt(ir) # 0)

\* the relay whose current IPT is rotated out: the first one past its
\* planned retirement that still has a current IPT (0: none)
rotate_out_idx(irs, t) ==
    IF Cardinality(good_ipts(irs)) >= target_n_intro_points
    THEN FirstIdx(irs, LAMBDA ir : should_retire(ir, t) /\ current_ipt(ir) # 0)
    ELSE 0

\* a retain closure that forgets the descriptor expiry
retain_ipt_current_only(ipt, t) == ipt.is_current

\* a retain closure that forgets is_current
retain_ipt_by_expiry(ipt, t) ==
    /\ ipt.last_descriptor_expiry_including_slop # None
    /\ t < ipt.last_descriptor_expiry_including_slop

\* the closure of ir.ipts.retain: is this Ipt kept?
retain_ipt(ipt, t) ==
    \/ ipt.is_current
    \/ /\ ipt.last_descriptor_expiry_including_slop # None
       /\ t < ipt.last_descriptor_expiry_including_slop

\* "Forget old IPTs"
forget_old_ipts(irs, t) ==
    [ i \in 1..Len(irs) |->
        [ irs[i] EXCEPT !.ipts =
            SelectSeq(irs[i].ipts, LAMBDA ipt : retain_ipt(ipt, t)) ] ]

\* "Forget retired IPT relays"
forget_retired_relays(irs, t) ==
    SelectSeq(irs, LAMBDA ir : ~(should_retire(ir, t) /\ ir.ipts = << >>))

\* a creation test that does not look for a current IPT
needs_new_ipt_always(ir, t) == ~should_retire(ir, t)

\* the relay that gets a new current IPT: the first one that is not to be
\* retired and has no current IPT (0: none)
needs_new_ipt(ir, t) == ~should_retire(ir, t) /\ current_ipt(ir) = 0

make_new_ipt_idx(irs, t) == FirstIdx(irs, LAMBDA ir : needs_new_ipt(ir, t))

\* a count that leaves out the Establishing IPTs
n_good_relays_only(irs) == Cardinality(good_ipts(irs))

\* current IPTs that are Good or Establishing
n_good_ish_relays(irs) ==
    Cardinality({ ipt \in current_ipts(irs) : ipt.kind # "Faulty" })

\* a condition that forgets that the last selection failed
wants_new_relay_after_failure(irs) ==
    /\ n_good_ish_relays(irs) < target_n_intro_points
    /\ Len(irs) < max_n_intro_relays

\* the condition under which a new relay is selected
wants_new_relay(irs) ==
    /\ n_good_ish_relays(irs) < target_n_intro_points
    /\ Len(irs) < max_n_intro_relays
    /\ last_irelay_selection_outcome = "Ok"

\* a filter that does not look at the relays already in use
usable_relays_any(irs) == Relays

\* the relays pick_relay may return: HS-intro candidates not yet in use
usable_relays(irs) == Relays \ { irs[i].relay : i \in 1..Len(irs) }

\* the deadlines TrackingNow has collected when progress returns Some(now):
\* each is the first instant at which one of the comparisons made changes
tracked_deadlines(irs, t, create_failed) ==
    { irs[i].planned_retirement + 1 :
        i \in { j \in 1..Len(irs) : ~should_retire(irs[j], t) } }
    \cup { ipt.last_descriptor_expiry_including_slop :
             ipt \in { x \in AllIpts(irs) : ~x.is_current } }
    \cup (IF create_failed THEN { t + STORAGE_RETRY } ELSE {})

\* the result of one call of idempotently_progress_things_now at time t, when
\* pick_relay would return relay r, the rotation time drawn is d, creating an
\* IPT meets the I/O fault io_fault and timely_netdir succeeds iff netdir_ok:
\* ret is "CONTINUE" (Ok(None)) or "DONE" (Ok(Some(now)))
idempotently_progress_things_now(irs, t, r, d, io_fault, netdir_ok) ==
    LET same == [ irelays |-> irs, outcome |-> last_irelay_selection_outcome,
                  keystore |-> keystore, nextLid |-> nextLid,
                  ret |-> "CONTINUE", wake |-> None ]
        ri == rotate_out_idx(irs, t)
        g == forget_retired_relays(forget_old_ipts(irs, t), t)
        ci == make_new_ipt_idx(g, t)
        est == start_establisher(keystore, nextLid, t, TRUE, io_fault)
        create_failed == ci # 0 /\ ~est.ok
        ks == IF ci # 0 THEN est.keystore ELSE keystore
        \* a lid of which nothing was stored can be drawn again
        nl == IF ks # keystore THEN nextLid + 1 ELSE nextLid
    IN  IF ri # 0
        THEN \* rotate out an old IPT
             [ same EXCEPT !.irelays =
                 [ irs EXCEPT ![ri].ipts[current_ipt(irs[ri])].is_current = FALSE ] ]
        ELSE IF ci # 0 /\ est.ok
        THEN \* create a new IPT at an already-chosen relay
             [ same EXCEPT !.irelays =
                             [ g EXCEPT ![ci].ipts = Append(@, est.ipt) ],
                           !.keystore = ks, !.nextLid = nl ]
        ELSE IF wants_new_relay(g)
        THEN \* choose_new_ipt_relay
             IF netdir_ok /\ r \in usable_relays(g)
             THEN [ same EXCEPT !.irelays =
                                  Append(g, [ relay |-> r,
                                              planned_retirement |-> t + d,
                                              ipts |-> << >> ]),
                                !.outcome = "Ok",
                                !.keystore = ks, !.nextLid = nl ]
             ELSE [ same EXCEPT !.irelays = g, !.outcome = "Err",
                                !.keystore = ks, !.nextLid = nl ]
        ELSE [ same EXCEPT !.irelays = g, !.keystore = ks, !.nextLid = nl,
                           !.ret = "DONE",
                           !.wake = MinOrNone(tracked_deadlines(g, t, create_failed)) ]

\* the picks pick_relay can make, 0 when no relay is usable.  Relays are
\* only ever compared for equality, so of the relays never held before
\* only the lowest is offered: any other pick gives the same behaviour up
\* to the names of the relays.
relay_picks(irs) ==
    LET held == { irs[i].relay : i \in 1..Len(irs) }
        fresh == { r \in usable_relays(irs) : \A h \in held : r > h }
        picks == (usable_relays(irs) \ fresh)
                 \cup (IF fresh = {} THEN {} ELSE { Min(fresh) })
    IN  IF picks = {} THEN { 0 } ELSE picks

\* ------------------------------------------------------------------ Init

\* no select_biased! has returned in this run_once
NoSelection == [ ready |-> {}, chosen |-> "none" ]

\* the key an IPT gets for a specifier: the stored one (keymgr.get) or one
\* generated by this manager
key_of(ks, kid, spec, ep) == IF spec \in ks THEN kid[spec] ELSE ep

\* the keystore's contents after the keys of added have been generated
store_keys(kid, added, ep) ==
    [ spec \in DOMAIN kid \cup added |->
        IF spec \in DOMAIN kid THEN kid[spec] ELSE ep ]

\* MockEstab::drop: an establisher leaves MockEstabs with its IPT
drop_estabs(es, irs) == { e \in es : e.lid \in AllLids(irs) }

\* the entry of MockEstabs for an IPT: its lid and its IptParameters
MockEstabState(irs, lid, ks, kid, ep) ==
    LET i == CHOOSE i \in 1..Len(irs) :
                 \E k \in 1..Len(irs[i].ipts) : irs[i].ipts[k].lid = lid
    IN  [ lid |-> lid, target |-> irs[i].relay,
          k_sid |-> key_of(ks, kid, << "KSid", lid >>, ep),
          k_ntor |-> key_of(ks, kid, << "KHssNtor", lid >>, ep) ]

\* Mocks::make_new_ipt for every IPT of after that before did not have
make_new_ipts(es, before, after, ks, kid, ep) ==
    es \cup { MockEstabState(after, lid, ks, kid, ep) :
                lid \in AllLids(after) \ AllLids(before) }

\* ------------------------------------------ the publisher's HsDir lists

\* relays that may serve as HsDirs
MaxHsDir == 3
\* time periods a directory may name
MaxPeriod == 2
\* HsDirs in the ring of one time period
MaxRing == 2
\* revision counters of the descriptors uploaded
MaxRev == 2

\* lists of at most n different elements of S
DistinctSeqs(S, n) ==
    { q \in UNION { [1..k -> S] : k \in 0..n } :
        \A i, j \in 1..Len(q) : i # j => q[i] # q[j] }

\* NetDir::hs_dirs_upload for one time period: the HsDirs to upload to
Rings == DistinctSeqs(1..MaxHsDir, MaxRing) \ { << >> }

\* the directories the publisher may be given: the time periods of
\* hs_all_time_periods, in order, and the ring of each; the ring of the
\* first time period varies, that of the second does not
NetDirs ==
    { nd \in [ periods : { << 1 >>, << 1, 2 >>, << 2 >> },
               ring : [ 1..MaxPeriod -> Rings ] ] :
        nd.ring[MaxPeriod] = << 1, 2 >> }

\* the position of the first element of old at or after pos that has this
\* id, or 0: Iterator::find on what is left of the iterator
find_from(old, pos, id) ==
    LET hits == { j \in pos..Len(old) : old[j].relay_ids = id }
    IN  IF hits = {} THEN 0 ELSE Min(hits)

\* compute_hsdirs that gives every HsDir of the ring the status Dirty
compute_hsdirs_all_dirty(ring, old, pos) ==
    [ i \in 1..Len(ring) |-> [ relay_ids |-> ring[i], status |-> "Dirty" ] ]

\* TimePeriodContext::compute_hsdirs: each HsDir of the ring takes the status
\* that old_hsdirs.find gives; find takes from the iterator every element up
\* to the one it returns, and all of them when it returns None; pos is the
\* first element the iterator still holds
RECURSIVE compute_hsdirs(_, _, _)
compute_hsdirs(ring, old, pos) ==
    IF ring = << >> THEN << >>
    ELSE LET j == find_from(old, pos, Head(ring))
         IN  IF j = 0
             THEN << [ relay_ids |-> Head(ring), status |-> "Dirty" ] >>
                  \o compute_hsdirs(Tail(ring), old, Len(old) + 1)
             ELSE << [ relay_ids |-> Head(ring), status |-> old[j].status ] >>
                  \o compute_hsdirs(Tail(ring), old, j + 1)

\* the position in tps of the context of this period, or 0
period_idx(tps, period) ==
    LET hits == { i \in 1..Len(tps) : tps[i].period = period }
    IN  IF hits = {} THEN 0 ELSE Min(hits)

\* TimePeriodContext::new
TimePeriodContext_new(period, ring, old_hsdirs) ==
    [ period |-> period,
      hs_dirs |-> compute_hsdirs(ring, old_hsdirs, 1),
      last_successful |-> None ]

\* Reactor::compute_time_periods
compute_time_periods(nd, tps) ==
    [ i \in 1..Len(nd.periods) |->
        LET period == nd.periods[i]
            k == period_idx(tps, period)
        IN  TimePeriodContext_new(period, nd.ring[period],
                                  IF k = 0 THEN << >> ELSE tps[k].hs_dirs) ]

\* Reactor::mark_all_dirty
mark_all_dirty(tps) ==
    [ i \in 1..Len(tps) |->
        [ tps[i] EXCEPT !.hs_dirs =
            [ k \in 1..Len(tps[i].hs_dirs) |->
                [ tps[i].hs_dirs[k] EXCEPT !.status = "Dirty" ] ] ] ]

\* the directory Reactor::run starts with
InitNetDir == [ periods |-> << 1, 2 >>, ring |-> [ p \in 1..MaxPeriod |-> << 1, 2 >> ] ]

\* the state IptManager::new leaves, with f failures and e events counted
\* as already spent
InitSpent(f, e) ==
    /\ now = 0
    /\ ticks = 0
    /\ current_config \in 1..MaxN
    /\ irelays = << >>
    /\ last_irelay_selection_outcome = "Ok"
    /\ pc = "top"
    /\ wake = None
    /\ publish_set = [ ipts |-> NoIptSet,
                       last_descriptor_expiry_including_slop |-> << >> ]
    /\ keystore = {}
    /\ storage = {}
    /\ nextLid = 1
    /\ faults = f
    /\ events = e
    /\ accept_calls = [ lid \in 1..MaxLid |-> 0 ]
    /\ loop_count = 0
    /\ selected = NoSelection
    /\ key_id = << >>
    /\ estabs = {}
    /\ status_tasks = {}
    /\ shut_closed = FALSE
    /\ managers = 1
    /\ epoch = 1
    /\ last_startup = "Ok"
    /\ startups = 0
    /\ estabs_inventory = {}
    /\ publish_status = [ val |-> "AwaitingIpts", unseen |-> TRUE ]
    /\ last_uploaded = None
    /\ reattempt_upload = [ val |-> None, unseen |-> TRUE ]
    /\ schedule_upload = TRUE
    /\ reminder = [ pc |-> "recv", until |-> None ]
    /\ dirty = TRUE
    /\ upload_tasks = 0
    /\ netdir = InitNetDir
    /\ time_periods = compute_time_periods(InitNetDir, << >>)
    /\ tasks = << >>
    /\ wallclock = 0
    /\ svc_config = [ nickname |-> 1, anonymity |-> "Anonymous",
                      max_concurrent_streams_per_circuit |-> 1 ]
    /\ reconfigured = [ how |-> "none", other |-> svc_config,
                        result |-> "none", config |-> svc_config ]
    /\ join = NoJoin

Init == InitSpent(0, 0)

\* the start of the behaviours that follow a manager through its shutdown
\* and its restart: they see at most LifeEvents events
InitLife == InitSpent(0, MaxEvents - LifeEvents)

\* --------------------------------------------------------------- actions

\* IptManager::import_new_expiry_times
import_new_expiry_times(irs, ps) ==
    [ i \in 1..Len(irs) |->
        [ irs[i] EXCEPT !.ipts =
            [ k \in 1..Len(irs[i].ipts) |->
                IF irs[i].ipts[k].lid \in
                       DOMAIN ps.last_descriptor_expiry_including_slop
                THEN [ irs[i].ipts[k] EXCEPT
                         !.last_descriptor_expiry_including_slop =
                             ps.last_descriptor_expiry_including_slop[irs[i].ipts[k].lid] ]
                ELSE irs[i].ipts[k] ] ] ]

\* run_once: take the lock of the shared set and import the publisher's
\* expiry times
RunOnceBegin ==
    /\ pc = "top"
    /\ irelays' = import_new_expiry_times(irelays, publish_set)
    /\ pc' = "progress"
    /\ loop_count' = 0
    /\ selected' = NoSelection
    /\ UNCHANGED << now, ticks, current_config, last_irelay_selection_outcome,
                    wake, publish_set, keystore, storage, nextLid, faults,
                    events >>
    /\ UNCHANGED << accept_calls, key_id, estabs, status_tasks, lifevars >>
    /\ UNCHANGED reactor_vars

\* the failures a call may meet: none, or any one while the bound allows
io_faults == { "none" } \cup (IF faults < MaxFaults
                                THEN { "keystore", "replaylog" } ELSE {})

may_fail == { TRUE } \cup (IF faults < MaxFaults THEN { FALSE } ELSE {})

\* run_once: one call of idempotently_progress_things_now in the loop
Progress ==
    /\ pc = "progress"
    /\ \E r \in relay_picks(forget_retired_relays(forget_old_ipts(irelays, now), now)),
          d \in ipt_relay_rotation_time,
          io_fault \in io_faults, netdir_ok \in may_fail :
         LET res == idempotently_progress_things_now(irelays, now, r, d,
                                                     io_fault, netdir_ok)
             smooth == idempotently_progress_things_now(irelays, now, r, d,
                                                        "none", TRUE)
             failed == io_fault # "none" \/ ~netdir_ok
         IN  /\ failed => (res # smooth /\ (io_fault = "none" \/ netdir_ok))
             /\ res.nextLid <= MaxLid + 1
             /\ irelays' = res.irelays
             /\ last_irelay_selection_outcome' = res.outcome
             /\ keystore' = res.keystore
             /\ nextLid' = res.nextLid
             /\ wake' = res.wake
             /\ pc' = IF res.ret = "DONE" THEN "publish" ELSE "progress"
             /\ faults' = IF failed THEN faults + 1 ELSE faults
             /\ key_id' = store_keys(key_id, res.keystore \ keystore, epoch)
             /\ estabs' = make_new_ipts(drop_estabs(estabs, res.irelays),
                                        irelays, res.irelays, keystore, key_id,
                                        epoch)
             /\ status_tasks' = status_tasks
                    \cup { << epoch, lid >> :
                             lid \in AllLids(res.irelays) \ AllLids(irelays) }
    /\ loop_count' = loop_count + 1
    /\ UNCHANGED << now, ticks, current_config, publish_set, storage, events >>
    /\ UNCHANGED << accept_calls, selected, lifevars >>
    /\ UNCHANGED reactor_vars

\* ------------------------------ IptManager::compute_iptsetstatus_publish

\* the current IPTs in the order of State.irelays
current_ipts_seq(irs) ==
    LET withcur == SelectSeq(irs, LAMBDA ir : current_ipt(ir) # 0)
    IN  [ i \in 1..Len(withcur) |-> withcur[i].ipts[current_ipt(withcur[i])] ]

\* fastest_good_establish_time: None if no current Good IPT has a known one
fastest_good_establish_time(irs) ==
    MinOrNone({ ipt.time_to_establish :
                  ipt \in { x \in good_ipts(irs) : x.time_to_establish # ErrUnit } })

\* a hold-off comparison that still holds off at the boundary itself
started_very_recently_inclusive(ipt, t, tau) ==
    ipt.kind = "Establishing" /\ ipt.started >= t - (tau + tau)

\* did this current IPT start establishing very recently, given the fastest
\* establish time tau?  (very_recently is now - 2 tau)
started_very_recently(ipt, t, tau) ==
    ipt.kind = "Establishing" /\ ipt.started > t - (tau + tau)

\* started_establishing_very_recently: index in current_ipts_seq of the
\* first IPT that makes us hold off, 0 for None
started_establishing_very_recently(irs, t) ==
    LET tau == fastest_good_establish_time(irs)
    IN  IF tau = None THEN 0
        ELSE FirstIdx(current_ipts_seq(irs),
                      LAMBDA ipt : started_very_recently(ipt, t, tau))

\* publish_lifetime without the "no good IPTs" branch
publish_lifetime_no_empty_check(irs, t) ==
    IF Cardinality(good_ipts(irs)) >= target_n_intro_points
    THEN IPT_PUBLISH_CERTAIN
    ELSE IF started_establishing_very_recently(irs, t) # 0
    THEN None
    ELSE IPT_PUBLISH_UNCERTAIN

\* publish_lifetime: None for "Unknown"
publish_lifetime(irs, t) ==
    IF Cardinality(good_ipts(irs)) >= target_n_intro_points
    THEN IPT_PUBLISH_CERTAIN
    ELSE IF good_ipts(irs) = {}
    THEN None
    ELSE IF started_establishing_very_recently(irs, t) # 0
    THEN None
    ELSE IPT_PUBLISH_UNCERTAIN

\* publish_set_select without the pop_front loop
publish_set_select_untruncated(irs) ==
    LET candidates == SelectSeq(current_ipts_seq(irs), is_good)
    IN  [ i \in 1..Len(candidates) |-> candidates[i].lid ]

\* publish_set_select taking the first target_n candidates, not the last
publish_set_select_first(irs) ==
    LET candidates == SelectSeq(current_ipts_seq(irs), is_good)
        n == Len(candidates)
        kept == IF n > target_n_intro_points
                THEN SubSeq(candidates, 1, target_n_intro_points)
                ELSE candidates
    IN  [ i \in 1..Len(kept) |-> kept[i].lid ]

\* IptManager::publish_set_select: the lids of the last target_n good
\* current IPTs, in the order of State.irelays
publish_set_select(irs) ==
    LET candidates == SelectSeq(current_ipts_seq(irs), is_good)
        n == Len(candidates)
        kept == IF n > target_n_intro_points
                THEN SubSeq(candidates, n - target_n_intro_points + 1, n)
                ELSE candidates
    IN  [ i \in 1..Len(kept) |-> kept[i].lid ]

\* compute_iptsetstatus_publish that asks every current IPT to accept
start_accepting_all_current(irs, lifetime) ==
    IF lifetime = None THEN {} ELSE { ipt.lid : ipt \in current_ipts(irs) }

\* compute_iptsetstatus_publish: the IPTs whose establisher is told to
\* start accepting, those selected for a set that is to be published
start_accepting(irs, lifetime) ==
    IF lifetime = None THEN {} ELSE Range(publish_set_select(irs))

\* persist::store writes one record per IPT held
inventory(irs) ==
    UNION { { [ lid |-> irs[i].ipts[k].lid, relay |-> irs[i].relay,
                is_current |-> irs[i].ipts[k].is_current,
                planned_retirement |-> irs[i].planned_retirement,
                pos |-> << i, k >> ] :
              k \in 1..Len(irs[i].ipts) } : i \in 1..Len(irs) }

\* the deadline the hold-off comparison leaves in TrackingNow
holdoff_deadlines(irs, t) ==
    LET k == IF Cardinality(good_ipts(irs)) >= target_n_intro_points
                \/ good_ipts(irs) = {}
             THEN 0 ELSE started_establishing_very_recently(irs, t)
        tau == fastest_good_establish_time(irs)
    IN  IF k = 0 THEN {}
        ELSE { current_ipts_seq(irs)[k].started + tau + tau }

\* compute_iptsetstatus_publish: the new publish_set.ipts, then the store;
\* ok is FALSE when the store failed
compute_iptsetstatus_publish(irs, t, ps, sto, store_ok) ==
    LET lifetime == publish_lifetime(irs, t)
        ipts == IF lifetime # None
                THEN SomeIptSet(publish_set_select(irs), lifetime)
                ELSE NoIptSet
    IN  [ publish_set |-> [ ps EXCEPT !.ipts = ipts ],
          storage |-> IF store_ok THEN inventory(irs) ELSE sto,
          accepting |-> start_accepting(irs, lifetime),
          ok |-> store_ok ]

\* IptManager::expire_old_expiry_times
expire_old_expiry_times(ps, t) ==
    LET m == ps.last_descriptor_expiry_including_slop
    IN  [ ps EXCEPT !.last_descriptor_expiry_including_slop =
            [ lid \in { l \in DOMAIN m : m[l] <= t } |-> m[lid] ] ]

\* run_once that leaves publish_set.ipts alone when the store failed
run_once_publish_keeping(irs, t, ps, sto, w, store_ok) ==
    LET res == compute_iptsetstatus_publish(irs, t, ps, sto, store_ok)
        dl == (IF w = None THEN {} ELSE { w })
              \cup holdoff_deadlines(irs, t)
              \cup (IF res.ok THEN {} ELSE { t + STORE_RETRY_WAIT })
    IN  [ publish_set |-> expire_old_expiry_times(res.publish_set, t),
          storage |-> res.storage,
          accepting |-> res.accepting,
          wake |-> MinOrNone(dl) ]

\* run_once from the end of the progress loop to the release of the lock
run_once_publish(irs, t, ps, sto, w, store_ok) ==
    LET res == compute_iptsetstatus_publish(irs, t, ps, sto, store_ok)
        ps1 == IF res.ok THEN res.publish_set
               ELSE [ res.publish_set EXCEPT !.ipts = NoIptSet ]
        dl == (IF w = None THEN {} ELSE { w })
              \cup holdoff_deadlines(irs, t)
              \cup (IF res.ok THEN {} ELSE { t + STORE_RETRY_WAIT })
    IN  [ publish_set |-> expire_old_expiry_times(ps1, t),
          storage |-> res.storage,
          accepting |-> res.accepting,
          wake |-> MinOrNone(dl) ]

Publish ==
    /\ pc = "publish"
    /\ \E store_ok \in may_fail :
         LET res == run_once_publish(irelays, now, publish_set, storage, wake,
                                     store_ok)
         IN  /\ publish_set' = res.publish_set
             /\ storage' = res.storage
             /\ wake' = res.wake
             /\ faults' = IF store_ok THEN faults ELSE faults + 1
             /\ accept_calls' =
                    [ lid \in DOMAIN accept_calls |->
                        IF lid \in res.accepting
                        THEN Min({ accept_calls[lid] + 1, MaxCalls })
                        ELSE accept_calls[lid] ]
    /\ pc' = "wait"
    /\ loop_count' = 0
    /\ UNCHANGED << now, ticks, current_config, irelays,
                    last_irelay_selection_outcome, keystore, nextLid, events >>
    /\ UNCHANGED << selected, key_id, estabs, status_tasks, lifevars >>
    /\ UNCHANGED reactor_vars

\* ------------------------------------------ run_once: the select_biased!

\* the timer of now.wait_for_earliest has expired
timer_ready == wake # None /\ now >= wake

\* the order with the shutdown arm before the timer arm
select_order_shutdown_first ==
    << "shutdown", "timer", "status", "dir", "config" >>

\* the wake-up sources of the select_biased!, in the order of its arms
select_order == << "timer", "shutdown", "status", "dir", "config" >>

\* select_biased! takes the first arm, in its order, whose future is ready
select_biased(ready) ==
    select_order[Min({ i \in 1..Len(select_order) : select_order[i] \in ready })]

\* the sets of sources that can be ready together when the manager polls:
\* the timer and the shutdown channel are ready as the state has them, a
\* directory event is awaited only after a failed relay selection, and a
\* status, a directory event or a configuration counts as an event
ReadySets ==
    { R \in SUBSET Range(select_order) :
        /\ R # {}
        /\ "timer" \in R <=> timer_ready
        /\ "shutdown" \in R <=> shut_closed
        /\ "dir" \in R => last_irelay_selection_outcome = "Err"
        /\ events >= MaxEvents => R \subseteq { "timer", "shutdown" } }

\* the select_biased! returns with the source it took
Select(source) ==
    /\ pc = "wait"
    /\ \E ready \in ReadySets :
         /\ select_biased(ready) = source
         /\ selected' = [ ready |-> ready, chosen |-> source ]

\* what no arm of the select_biased! touches
armvars == << accept_calls, loop_count, key_id, estabs, status_tasks >>

TimerExpiry ==
    /\ Select("timer")
    /\ pc' = "top"
    /\ UNCHANGED << now, ticks, current_config, irelays,
                    last_irelay_selection_outcome, wake, publish_set, keystore,
                    storage, nextLid, faults, events >>
    /\ UNCHANGED << armvars, lifevars >>
    /\ UNCHANGED reactor_vars

\* an establisher (also one of an IPT already dropped) reports a status
StatusUpdate ==
    /\ events < MaxEvents
    /\ events' = events + 1
    /\ Select("status")
    /\ \E lid \in 1..(nextLid - 1),
          update \in { "Establishing", "Good", "Faulty" },
          wants_to_retire \in BOOLEAN :
         irelays' = handle_ipt_status_update(irelays, lid, update,
                                             wants_to_retire, now)
    /\ pc' = "top"
    /\ UNCHANGED << now, ticks, current_config, last_irelay_selection_outcome,
                    wake, publish_set, keystore, storage, nextLid, faults >>
    /\ UNCHANGED << armvars, lifevars >>
    /\ UNCHANGED reactor_vars

\* a directory event; the manager listens for one only while its last relay
\* selection failed
DirEvent ==
    /\ events < MaxEvents
    /\ events' = events + 1
    /\ Select("dir")
    /\ last_irelay_selection_outcome' = "Ok"
    /\ pc' = "top"
    /\ UNCHANGED << now, ticks, current_config, irelays, wake, publish_set,
                    keystore, storage, nextLid, faults >>
    /\ UNCHANGED << armvars, lifevars >>
    /\ UNCHANGED reactor_vars

\* a new configuration arrives on new_configs
NewConfig ==
    /\ events < MaxEvents
    /\ events' = events + 1
    /\ Select("config")
    /\ current_config' \in 1..MaxN
    /\ last_irelay_selection_outcome' = "Ok"
    /\ pc' = "top"
    /\ UNCHANGED << now, ticks, irelays, wake, publish_set, keystore, storage,
                    nextLid, faults >>
    /\ UNCHANGED << armvars, lifevars >>
    /\ UNCHANGED reactor_vars

\* ------------------------------------------------------- the environment

\* the clock advances while the manager sleeps: by a second, or up to the
\* deadline the manager waits for
Tick ==
    /\ pc = "wait"
    /\ ticks < MaxTicks
    /\ now' \in { now + 1 } \cup { t \in { wake } : t > now }
    /\ ticks' = ticks + 1
    /\ UNCHANGED << current_config, irelays, last_irelay_selection_outcome, pc,
                    wake, publish_set, keystore, storage, nextLid, faults,
                    events >>
    /\ UNCHANGED << selected, armvars, lifevars >>
    /\ UNCHANGED reactor_vars

\* PublishIptSet::note_publication_attempt, called by an upload task of the
\* publisher with the lock held: every IPT of the set it publishes is
\* recorded as published until worst_case_end + lifetime + slop
note_publication_attempt(ps, worst_case_end) ==
    LET m == ps.last_descriptor_expiry_including_slop
        published == Range(ps.ipts.ipts)
        new_value == worst_case_end + ps.ipts.lifetime + IPT_PUBLISH_EXPIRY_SLOP
    IN  [ ps EXCEPT !.last_descriptor_expiry_including_slop =
            [ lid \in DOMAIN m \cup published |->
                IF lid \in published THEN new_value ELSE m[lid] ] ]

\* Reactor::upload_for_time_period builds a descriptor from the IPT set
PublisherNote ==
    /\ events < MaxEvents
    /\ events' = events + 1
    /\ pc \in { "wait", "top" }
    /\ publish_set.ipts.some
    /\ publish_set' = note_publication_attempt(publish_set, now + UPLOAD_TIMEOUT)
    /\ publish_set' # publish_set
    /\ UNCHANGED << now, ticks, current_config, irelays,
                    last_irelay_selection_outcome, pc, wake, keystore, storage,
                    nextLid, faults >>
    /\ UNCHANGED << selected, armvars, lifevars >>
    /\ UNCHANGED reactor_vars

\* ------------------------------------- the start and the end of a manager

\* the numbers of a finite set in increasing order
SortedSeq(S) ==
    CHOOSE q \in [ 1..Cardinality(S) -> S ] :
        \A a, b \in 1..Cardinality(S) : a < b => q[a] < q[b]

\* persist::load: the IPT relays of the stored records, in their stored
\* order, each IPT with an establisher started anew on its existing keys
load(sto, t) ==
    LET rpos == SortedSeq({ rec.pos[1] : rec \in sto })
        relay_at(i) ==
            LET recs == { rec \in sto : rec.pos[1] = rpos[i] }
                kpos == SortedSeq({ rec.pos[2] : rec \in recs })
                any == CHOOSE rec \in recs : TRUE
                at(k) == CHOOSE rec \in recs : rec.pos[2] = kpos[k]
            IN  [ relay |-> any.relay,
                  planned_retirement |-> any.planned_retirement,
                  ipts |-> [ k \in 1..Len(kpos) |->
                               new_ipt(at(k).lid, t, at(k).is_current) ] ]
    IN  [ i \in 1..Len(rpos) |-> relay_at(i) ]

\* the keystore after load: start_establisher generates what is missing
load_keys(ks, sto) == UNION ({ ks } \cup { get_or_gen_keys(ks, rec.lid) : rec \in sto })

\* LockFile::try_lock that reports success whoever holds the lock
try_lock_blind(holders) == TRUE

\* LockFile::try_lock on the lock file of the replay log directory: obtained
\* exactly when no live manager (and none of its replay logs) holds it
try_lock(holders) == holders = 0

\* the test harness drops shut_tx. The manager reads the channel only in
\* its select_biased!, so closing it while an iteration runs is the same
\* as closing it when that iteration has reached its wait.
CloseShutdown ==
    /\ pc = "wait"
    /\ ~shut_closed
    /\ shut_closed' = TRUE
    /\ UNCHANGED << now, ticks, current_config, irelays,
                    last_irelay_selection_outcome, pc, wake, publish_set,
                    keystore, storage, nextLid, faults, events >>
    /\ UNCHANGED << selected, armvars, managers, epoch, last_startup,
                    startups, estabs_inventory >>
    /\ UNCHANGED reactor_vars

\* the shutdown arm: run_once returns Terminate, main_loop_task ends and
\* drops the manager with its IPTs, their establishers and replay logs
ShutdownObserved ==
    /\ Select("shutdown")
    /\ pc' = "terminated"
    /\ estabs_inventory' = estabs
    /\ irelays' = << >>
    /\ estabs' = {}
    /\ managers' = managers - 1
    /\ wake' = None
    /\ last_irelay_selection_outcome' = "Ok"
    /\ accept_calls' = [ lid \in 1..MaxLid |-> 0 ]
    /\ UNCHANGED << now, ticks, current_config, publish_set, keystore, storage,
                    nextLid, faults, events >>
    /\ UNCHANGED << loop_count, key_id, status_tasks, shut_closed, epoch,
                    last_startup, startups >>
    /\ UNCHANGED reactor_vars

\* the tasks that see their establisher go only while the manager lives
orphan_tasks_of_live_manager ==
    { task \in status_tasks :
        managers = 1 /\ task[1] = epoch /\ task[2] \notin AllLids(irelays) }

\* the status-forwarding tasks whose establisher has gone away
orphan_tasks ==
    { task \in status_tasks :
        task[1] # epoch \/ managers = 0 \/ task[2] \notin AllLids(irelays) }

\* a status-forwarding task ends once its establisher has gone away. The
\* tasks end independently of each other and of the manager, so one order
\* of their ends (oldest task first) stands for all.
StatusTaskExit ==
    /\ \E task \in orphan_tasks :
         /\ \A other \in orphan_tasks :
               other[1] > task[1] \/ (other[1] = task[1] /\ other[2] >= task[2])
         /\ status_tasks' = status_tasks \ { task }
    /\ UNCHANGED << now, ticks, current_config, irelays,
                    last_irelay_selection_outcome, pc, wake, publish_set,
                    keystore, storage, nextLid, faults, events >>
    /\ UNCHANGED << accept_calls, loop_count, selected, key_id, estabs,
                    lifevars >>
    /\ UNCHANGED reactor_vars

\* IptManager::new on the same state directory and keystore, followed by
\* launch_background_tasks: StateLocked unless the lock is obtained. The
\* call touches nothing of a running manager, so making it while that
\* manager waits stands for making it at any moment.
NewManager ==
    /\ pc \in { "wait", "terminated" }
    /\ startups < MaxStartups
    /\ startups' = startups + 1
    /\ IF try_lock(managers)
       THEN /\ last_startup' = "Ok"
            /\ managers' = managers + 1
            /\ epoch' = epoch + 1
            /\ irelays' = load(storage, now)
            /\ keystore' = load_keys(keystore, storage)
            /\ key_id' = store_keys(key_id, keystore' \ keystore, epoch')
            /\ estabs' = make_new_ipts({}, << >>, irelays', keystore, key_id,
                                       epoch')
            /\ status_tasks' = status_tasks
                                 \cup { << epoch', lid >> : lid \in AllLids(irelays') }
            /\ publish_set' = [ publish_set EXCEPT !.ipts = NoIptSet ]
            /\ pc' = "top"
            /\ wake' = None
            /\ last_irelay_selection_outcome' = "Ok"
            /\ accept_calls' = [ lid \in 1..MaxLid |-> 0 ]
            /\ loop_count' = 0
            /\ selected' = NoSelection
            /\ shut_closed' = FALSE
            /\ UNCHANGED << now, ticks, current_config, storage, nextLid,
                            faults, events, estabs_inventory >>
       ELSE /\ last_startup' = "StateLocked"
            /\ UNCHANGED << now, ticks, current_config, irelays,
                            last_irelay_selection_outcome, pc, wake,
                            publish_set, keystore, storage, nextLid, faults,
                            events >>
            /\ UNCHANGED << selected, armvars, shut_closed, managers, epoch,
                            estabs_inventory >>
    /\ UNCHANGED reactor_vars

\* the manager and what it hears
NextManager ==
    \/ RunOnceBegin
    \/ Progress
    \/ Publish
    \/ TimerExpiry
    \/ StatusUpdate
    \/ DirEvent
    \/ NewConfig
    \/ Tick

Next ==
    \/ NextManager
    \/ PublisherNote

Spec == Init /\ [][Next]_vars

\* the manager with its shutdown and its restart
NextLife ==
    \/ NextManager
    \/ CloseShutdown
    \/ ShutdownObserved
    \/ StatusTaskExit
    \/ NewManager

SpecLife == InitLife /\ [][NextLife]_vars

\* the steps of main_loop_task
ManagerStep ==
    RunOnceBegin \/ Progress \/ Publish \/ TimerExpiry \/ ShutdownObserved

\* the manager up to its shutdown
NextShutdown ==
    \/ NextManager
    \/ CloseShutdown
    \/ ShutdownObserved
    \/ StatusTaskExit

\* the runtime keeps running the main loop task and the status-forwarding
\* tasks while they can take a step
SpecShutdown ==
    /\ InitLife
    /\ [][NextShutdown]_vars
    /\ WF_vars(ManagerStep)
    /\ WF_vars(StatusTaskExit)

\* ------------------------------------------- the publisher's reactor

\* how often the reactor's clock is advanced in one behaviour
MaxReactorTicks == 4
\* how many IPT, configuration and consensus changes the reactor hears of
MaxReactorEvents == 3
\* upload tasks that run at the same time
MaxUploadTasks == 2

UPLOAD_RATE_LIM_THRESHOLD == 60

\* what the reactor leaves alone
manager_vars == << current_config, irelays, last_irelay_selection_outcome, pc,
                  wake, publish_set, keystore, storage, nextLid, faults,
                  accept_calls, loop_count, selected, key_id, estabs,
                  status_tasks, lifevars, service_vars >>

\* watch::Sender::send: the value is replaced, the receiver has it to read
watch_send(v) == [ val |-> v, unseen |-> TRUE ]

\* watch::Receiver::next has returned the value
watch_seen(ch) == [ ch EXCEPT !.unseen = FALSE ]

\* upload_all that never defers
rate_limited_never(last, t) == FALSE

\* upload_all: is an upload at t, after one at last, to be deferred?
rate_limited(last, t) ==
    last # None /\ t - last < UPLOAD_RATE_LIM_THRESHOLD

\* a deferral timed from the last upload
deferred_until_from_last(last, t) == last + UPLOAD_RATE_LIM_THRESHOLD

\* schedule_pending_upload(UPLOAD_RATE_LIM_THRESHOLD): the time sent to the
\* reminder task
deferred_until(last, t) == t + UPLOAD_RATE_LIM_THRESHOLD

\* Reactor::upload_all at time t: either the upload is deferred, or
\* last_uploaded is set and, if the descriptor is dirty, upload tasks are
\* spawned
upload_all(t) ==
    IF rate_limited(last_uploaded, t)
    THEN /\ reattempt_upload' = watch_send(deferred_until(last_uploaded, t))
         /\ UNCHANGED << last_uploaded, upload_tasks >>
    ELSE /\ last_uploaded' = t
         /\ upload_tasks' = IF dirty THEN upload_tasks + 1 ELSE upload_tasks
         /\ UNCHANGED reattempt_upload

\* Reactor::new and the start of Reactor::run, beside the manager as
\* constructed
InitReactor == InitSpent(0, 0) /\ current_config = 1

\* update_publish_status_unless_waiting that does not look at the status
update_publish_status_always(ps, new_state) == watch_send(new_state)

\* Reactor::update_publish_status_unless_waiting
update_publish_status_unless_waiting(ps, new_state) ==
    IF ps.val # "AwaitingIpts" THEN watch_send(new_state) ELSE ps

\* Reactor::note_ipt_change: the status for the IPT set the watcher shows
note_ipt_change(ipts_some) ==
    IF ipts_some THEN "UploadScheduled" ELSE "AwaitingIpts"

\* handle_ipt_change for an update that shows ipts = Some (ipts_some) or
\* ipts = None
IptChangeWith(ipts_some) ==
    /\ events < MaxReactorEvents
    /\ events' = events + 1
    /\ dirty' = TRUE
    /\ publish_status' = watch_send(note_ipt_change(ipts_some))
    /\ UNCHANGED << now, ticks, manager_vars, wallclock >>
    /\ UNCHANGED << last_uploaded, reattempt_upload, schedule_upload,
                    reminder, upload_tasks, hsdir_vars >>

\* run_once: ipt_watcher.await_update, handle_ipt_change
IptChange == \E ipts_some \in BOOLEAN : IptChangeWith(ipts_some)

\* run_once: a consensus change (handle_consensus_change) or a changed
\* configuration (handle_svc_config_change, which marks all dirty)
DescriptorChange ==
    /\ events < MaxReactorEvents
    /\ events' = events + 1
    /\ dirty' \in { dirty, TRUE }
    /\ publish_status' =
          update_publish_status_unless_waiting(publish_status, "UploadScheduled")
    /\ UNCHANGED << now, ticks, manager_vars, wallclock >>
    /\ UNCHANGED << last_uploaded, reattempt_upload, schedule_upload,
                    reminder, upload_tasks, hsdir_vars >>

\* run_once: upload_task_complete_rx, handle_upload_results
UploadTaskComplete ==
    /\ upload_tasks > 0
    /\ upload_tasks' = upload_tasks - 1
    /\ dirty' \in { dirty, FALSE }
    /\ UNCHANGED << now, ticks, events, manager_vars, wallclock >>
    /\ UNCHANGED << publish_status, last_uploaded, reattempt_upload,
                    schedule_upload, reminder, hsdir_vars >>

\* run_once: the reminder on schedule_upload_rx
ScheduleUpload ==
    /\ schedule_upload
    /\ schedule_upload' = FALSE
    /\ publish_status' =
          update_publish_status_unless_waiting(publish_status, "UploadScheduled")
    /\ UNCHANGED << now, ticks, events, manager_vars, wallclock >>
    /\ UNCHANGED << last_uploaded, reattempt_upload, reminder, dirty,
                    upload_tasks, hsdir_vars >>

\* run_once: publish_status_rx, the last arm of the select_biased!
PublishStatusChanged ==
    /\ publish_status.unseen
    /\ ~schedule_upload
    /\ IF publish_status.val = "UploadScheduled"
       THEN /\ publish_status' = watch_send("Idle")
            /\ upload_tasks < MaxUploadTasks
            /\ upload_all(now)
       ELSE /\ publish_status' = watch_seen(publish_status)
            /\ UNCHANGED << last_uploaded, reattempt_upload, upload_tasks >>
    /\ UNCHANGED << now, ticks, events, manager_vars, wallclock >>
    /\ UNCHANGED << schedule_upload, reminder, dirty, hsdir_vars >>

\* the reminder task takes the time it is sent and goes to sleep until then
ReminderRecv ==
    /\ reminder.pc = "recv"
    /\ reattempt_upload.unseen
    /\ reattempt_upload' = watch_seen(reattempt_upload)
    /\ reminder' = IF reattempt_upload.val = None
                   THEN reminder
                   ELSE [ pc |-> "sleep", until |-> reattempt_upload.val ]
    /\ UNCHANGED << now, ticks, events, manager_vars, wallclock >>
    /\ UNCHANGED << publish_status, last_uploaded, schedule_upload, dirty,
                    upload_tasks, hsdir_vars >>

\* the reminder task has slept long enough and reminds the reactor
ReminderSend ==
    /\ reminder.pc = "sleep"
    /\ now >= reminder.until
    /\ schedule_upload' = TRUE
    /\ reminder' = [ pc |-> "recv", until |-> None ]
    /\ UNCHANGED << now, ticks, events, manager_vars, wallclock >>
    /\ UNCHANGED << publish_status, last_uploaded, reattempt_upload, dirty,
                    upload_tasks, hsdir_vars >>

\* the clock advances: by a second, to the end of the rate limit, or to the
\* time the reminder task sleeps until
ReactorTick ==
    /\ ticks < MaxReactorTicks
    /\ ticks' = ticks + 1
    /\ now' \in { now + 1 }
                \cup { t \in { reminder.until } : t > now }
                \cup { t \in { last_uploaded + UPLOAD_RATE_LIM_THRESHOLD } :
                         last_uploaded # None /\ t > now }
    /\ UNCHANGED << events, manager_vars, reactor_vars >>

NextReactor ==
    \/ IptChange
    \/ DescriptorChange
    \/ UploadTaskComplete
    \/ ScheduleUpload
    \/ PublishStatusChanged
    \/ ReminderRecv
    \/ ReminderSend
    \/ ReactorTick

SpecReactor == InitReactor /\ [][NextReactor]_vars

\* ------------------------------- the reactor and its HsDirs, in detail

\* IPT, configuration and consensus changes the reactor hears of
MaxHsEvents == 2

\* the HsDirs of a time period that are Dirty, in the order of its list
dirty_hs_dirs(ctx) ==
    LET idx == { k \in 1..Len(ctx.hs_dirs) : ctx.hs_dirs[k].status = "Dirty" }
        nth(n) == CHOOSE k \in idx :
                     Cardinality({ m \in idx : m < k }) = n - 1
    IN  [ n \in 1..Cardinality(idx) |-> ctx.hs_dirs[nth(n)].relay_ids ]

\* upload_all, the loop over the time periods from the i-th on: the tasks it
\* spawns; it returns at the first time period that has no Dirty HsDir
RECURSIVE upload_all_tasks(_, _)
upload_all_tasks(tps, i) ==
    IF i > Len(tps) THEN << >>
    ELSE LET hs_dirs == dirty_hs_dirs(tps[i])
         IN  IF hs_dirs = << >> THEN << >>
             ELSE << [ period |-> tps[i].period, hs_dirs |-> hs_dirs,
                       descs |-> << >> ] >>
                  \o upload_all_tasks(tps, i + 1)

\* the position of this HsDir in the list, or 0
hs_dir_idx(hs_dirs, id) ==
    LET hits == { k \in 1..Len(hs_dirs) : hs_dirs[k].relay_ids = id }
    IN  IF hits = {} THEN 0 ELSE Min(hits)

\* handle_upload_results, the loop over the outcomes of one time period; it
\* returns at the first outcome whose HsDir is not in the list
RECURSIVE apply_upload_results(_, _)
apply_upload_results(ctx, hsdir_result) ==
    IF hsdir_result = << >> THEN ctx
    ELSE LET res == Head(hsdir_result)
             k == hs_dir_idx(ctx.hs_dirs, res.relay_ids)
         IN  IF k = 0 THEN ctx
             ELSE IF /\ res.upload_res = "Success"
                     /\ \/ ctx.last_successful = None
                        \/ ctx.last_successful <= res.revision_counter
                  THEN apply_upload_results(
                         [ ctx EXCEPT !.last_successful = res.revision_counter,
                                      !.hs_dirs[k].status = "Clean" ],
                         Tail(hsdir_result))
                  ELSE apply_upload_results(ctx, Tail(hsdir_result))

\* Reactor::handle_upload_results
handle_upload_results(tps, results) ==
    LET i == period_idx(tps, results.time_period)
    IN  IF i = 0 THEN tps
        ELSE [ tps EXCEPT ![i] = apply_upload_results(tps[i], results.hsdir_result) ]

\* the results an upload task may send: an outcome for each of its HsDirs,
\* in the order the uploads end
ResultsOf(task) ==
    { [ time_period |-> task.period,
        hsdir_result |-> [ n \in 1..Len(order) |->
                             [ relay_ids |-> order[n],
                               upload_res |-> upload_res[n],
                               revision_counter |-> revision_counter[n] ] ] ] :
        order \in { o \in DistinctSeqs(Range(task.hs_dirs), Len(task.hs_dirs)) :
                      Len(o) = Len(task.hs_dirs) },
        upload_res \in [ 1..Len(task.hs_dirs) -> { "Success", "Failure" } ],
        revision_counter \in [ 1..Len(task.hs_dirs) -> 1..MaxRev ] }

\* s without its i-th element
RemoveAt(s, i) == [ n \in 1..(Len(s) - 1) |-> IF n < i THEN s[n] ELSE s[n + 1] ]

\* what the coarser actions of the reactor keep of the HsDirs and the tasks
HsSummary ==
    /\ dirty' = (upload_all_tasks(time_periods', 1) # << >>)
    /\ upload_tasks' = Len(tasks')

\* handle_ipt_change, with the HsDir lists
IptChangeHsWith(ipts_some) ==
    /\ events < MaxHsEvents
    /\ events' = events + 1
    /\ time_periods' = mark_all_dirty(time_periods)
    /\ publish_status' = watch_send(note_ipt_change(ipts_some))
    /\ UNCHANGED << now, ticks, manager_vars, wallclock >>
    /\ UNCHANGED << last_uploaded, reattempt_upload, schedule_upload,
                    reminder, netdir, tasks >>
    /\ HsSummary

IptChangeHs == \E ipts_some \in BOOLEAN : IptChangeHsWith(ipts_some)

\* handle_svc_config_change, with the HsDir lists
ConfigChangeHs ==
    /\ events < MaxHsEvents
    /\ events' = events + 1
    /\ time_periods' = mark_all_dirty(time_periods)
    /\ publish_status' =
          update_publish_status_unless_waiting(publish_status, "UploadScheduled")
    /\ UNCHANGED << now, ticks, manager_vars, wallclock >>
    /\ UNCHANGED << last_uploaded, reattempt_upload, schedule_upload,
                    reminder, netdir, tasks >>
    /\ HsSummary

\* handle_consensus_change for the directory nd
ConsensusChangeWith(nd) ==
    /\ events < MaxHsEvents
    /\ events' = events + 1
    /\ netdir' = nd
    /\ time_periods' = compute_time_periods(nd, time_periods)
    /\ publish_status' =
          update_publish_status_unless_waiting(publish_status, "UploadScheduled")
    /\ UNCHANGED << now, ticks, manager_vars, wallclock >>
    /\ UNCHANGED << last_uploaded, reattempt_upload, schedule_upload,
                    reminder, tasks >>
    /\ HsSummary

ConsensusChangeHs == \E nd \in NetDirs : ConsensusChangeWith(nd)

\* run_once: the i-th running task sends results, handle_upload_results
UploadResultsWith(i, results) ==
    /\ i \in 1..Len(tasks)
    /\ results \in ResultsOf(tasks[i])
    /\ tasks' = RemoveAt(tasks, i)
    /\ time_periods' = handle_upload_results(time_periods, results)
    /\ UNCHANGED << now, ticks, events, manager_vars, wallclock >>
    /\ UNCHANGED << publish_status, last_uploaded, reattempt_upload,
                    schedule_upload, reminder, netdir >>
    /\ HsSummary

UploadResultsHs ==
    \E i \in 1..Len(tasks) : \E results \in ResultsOf(tasks[i]) :
        UploadResultsWith(i, results)

\* upload_for_time_period returns an error (the IPTs went away): the task
\* ends and sends nothing
UploadTaskFailsHs ==
    /\ \E i \in 1..Len(tasks) : tasks' = RemoveAt(tasks, i)
    /\ UNCHANGED << now, ticks, events, manager_vars, wallclock >>
    /\ UNCHANGED << publish_status, last_uploaded, reattempt_upload,
                    schedule_upload, reminder, netdir, time_periods >>
    /\ HsSummary

\* run_once: publish_status_rx, with upload_all over the time periods
PublishStatusChangedHs ==
    /\ publish_status.unseen
    /\ ~schedule_upload
    /\ IF publish_status.val = "UploadScheduled"
       THEN /\ publish_status' = watch_send("Idle")
            /\ IF rate_limited(last_uploaded, now)
               THEN /\ reattempt_upload' =
                          watch_send(deferred_until(last_uploaded, now))
                    /\ UNCHANGED << last_uploaded, tasks >>
               ELSE /\ last_uploaded' = now
                    /\ Len(tasks) + Len(upload_all_tasks(time_periods, 1))
                           <= MaxUploadTasks
                    /\ tasks' = tasks \o upload_all_tasks(time_periods, 1)
                    /\ UNCHANGED reattempt_upload
       ELSE /\ publish_status' = watch_seen(publish_status)
            /\ UNCHANGED << last_uploaded, reattempt_upload, tasks >>
    /\ upload_tasks' = Len(tasks')
    /\ UNCHANGED << now, ticks, events, manager_vars, wallclock >>
    /\ UNCHANGED << schedule_upload, reminder, dirty, netdir, time_periods >>

\* the clock advances to the end of the rate limit
RateLimitPasses ==
    /\ ticks < MaxReactorTicks
    /\ last_uploaded # None
    /\ now < last_uploaded + UPLOAD_RATE_LIM_THRESHOLD
    /\ ticks' = ticks + 1
    /\ now' = last_uploaded + UPLOAD_RATE_LIM_THRESHOLD
    /\ UNCHANGED << events, manager_vars, reactor_vars >>

NextHsDirs ==
    \/ IptChangeHs
    \/ ConfigChangeHs
    \/ ConsensusChangeHs
    \/ UploadResultsHs
    \/ UploadTaskFailsHs
    \/ PublishStatusChangedHs
    \/ ScheduleUpload
    \/ RateLimitPasses

SpecHsDirs == InitReactor /\ [][NextHsDirs]_vars

\* ------------------------------------------------ revision counters

\* how far the wall clock advances
MaxWall == 2
\* seconds in a time period
PeriodLength == 4
\* values of a word of the cipher stream
OpeWords == 3

\* TimePeriod::offset_within_period: the seconds from the start of the
\* period to w, or None if w is not within the period
offset_within_period(period, w) ==
    LET start == (period - 1) * PeriodLength
    IN  IF start <= w /\ w < start + PeriodLength THEN w - start ELSE None

\* the i-th word of the cipher stream of the period's key
ope_word(period, i) == (period + i) % OpeWords

\* an encryption whose results fall as the offset grows
ope_encrypt_falling(period, offset) == PeriodLength - offset

\* AesOpeKey::encrypt: the sum of the first offset + 1 words of the cipher
\* stream, each counted one higher
RECURSIVE ope_encrypt(_, _)
ope_encrypt(period, offset) ==
    IF offset < 0 THEN 0
    ELSE ope_word(period, offset + 1) + 1 + ope_encrypt(period, offset - 1)

\* Immutable::generate_revision_counter (where the offset is not None)
generate_revision_counter(period, w) ==
    ope_encrypt(period, offset_within_period(period, w))

\* upload_for_time_period: the i-th task builds the descriptor for the next
\* of its HsDirs, with a revision counter from the wall clock
BuildDescriptorWith(i) ==
    /\ i \in 1..Len(tasks)
    /\ Len(tasks[i].descs) < Len(tasks[i].hs_dirs)
    /\ offset_within_period(tasks[i].period, wallclock) # None
    /\ tasks' = [ tasks EXCEPT ![i].descs =
                    Append(@, [ relay_ids |-> tasks[i].hs_dirs[Len(@) + 1],
                                revision_counter |->
                                  generate_revision_counter(tasks[i].period,
                                                            wallclock) ]) ]
    /\ UNCHANGED << now, ticks, events, manager_vars, wallclock >>
    /\ UNCHANGED << publish_status, last_uploaded, reattempt_upload,
                    schedule_upload, reminder, dirty, upload_tasks, netdir,
                    time_periods >>

BuildDescriptor == \E i \in 1..Len(tasks) : BuildDescriptorWith(i)

\* the wall clock advances by a second
WallclockAdvance ==
    /\ wallclock < MaxWall
    /\ wallclock' = wallclock + 1
    /\ UNCHANGED << now, ticks, events, manager_vars >>
    /\ UNCHANGED << publish_status, last_uploaded, reattempt_upload,
                    schedule_upload, reminder, dirty, upload_tasks, hsdir_vars >>

NextRevision ==
    \/ IptChangeHs
    \/ ScheduleUpload
    \/ PublishStatusChangedHs
    \/ RateLimitPasses
    \/ BuildDescriptor
    \/ WallclockAdvance
    \/ UploadTaskFailsHs

SpecRevision == InitReactor /\ [][NextRevision]_vars

\* ------------------------------------------------- reconfiguration

\* nicknames a configuration may carry
MaxNickname == 2
\* values of max_concurrent_streams_per_circuit
MaxStreams == 3

\* the configurations a service may be asked to change to
OnionServiceConfigs ==
    [ nickname : 1..MaxNickname,
      anonymity : { "Anonymous", "SingleOnion" },
      max_concurrent_streams_per_circuit : 1..MaxStreams ]

\* tor_config::Reconfigure
Reconfigure == { "AllOrNothing", "WarnOnFailures", "CheckAllOrNothing" }

\* Reconfigure::cannot_change that lets every policy go on
cannot_change_warns(how) == "Ok"

\* Reconfigure::cannot_change: an error, except under WarnOnFailures, which
\* warns and goes on
cannot_change(how) == IF how = "WarnOnFailures" THEN "Ok" ELSE "Err"

\* OnionServiceConfig::for_transition_to
for_transition_to(self, other, how) ==
    IF self.nickname # other.nickname /\ cannot_change(how) = "Err"
    THEN [ how |-> how, other |-> other, result |-> "Err", config |-> self ]
    ELSE LET other1 == [ other EXCEPT !.nickname = self.nickname ]
         IN  IF self.anonymity # other1.anonymity /\ cannot_change(how) = "Err"
             THEN [ how |-> how, other |-> other, result |-> "Err", config |-> self ]
             ELSE [ how |-> how, other |-> other, result |-> "Ok",
                    config |-> [ other1 EXCEPT !.anonymity = self.anonymity ] ]

\* the service is asked to change to the configuration other under the
\* policy how; it takes what for_transition_to returns, unless that is an
\* error or the policy only checks
ReconfigureWith(other, how) ==
    /\ reconfigured' = for_transition_to(svc_config, other, how)
    /\ svc_config' = IF reconfigured'.result = "Ok" /\ how # "CheckAllOrNothing"
                     THEN reconfigured'.config
                     ELSE svc_config
    /\ UNCHANGED << now, ticks, events, current_config, irelays,
                    last_irelay_selection_outcome, pc, wake, publish_set,
                    keystore, storage, nextLid, faults, accept_calls,
                    loop_count, selected, key_id, estabs, status_tasks,
                    lifevars >>
    /\ UNCHANGED << publish_status, last_uploaded, reattempt_upload,
                    schedule_upload, reminder, dirty, upload_tasks, hsdir_vars,
                    wallclock, join >>

ReconfigureService ==
    \E other \in OnionServiceConfigs : \E how \in Reconfigure :
        ReconfigureWith(other, how)

NextConfig == ReconfigureService

SpecConfig == Init /\ [][NextConfig]_vars

\* ------------------------------------------------------ merge_join_subset_by

MaxJoinLen == 3
MaxJoinKey == 4

JoinKeys == 1..MaxJoinKey

\* what an iterator of at most MaxJoinLen elements yields: the element at
\* position i is the i-th element of its input, and s[i] is its key
JoinInputs == UNION { [ 1..n -> JoinKeys ] : n \in 0..MaxJoinLen }

\* collect() that keeps the first element of the iterator only
collect_first(smaller) ==
    [ k \in { smaller[j] : j \in 1..Len(smaller) } \cap
            (IF smaller = << >> THEN {} ELSE { smaller[1] }) |-> 1 ]

\* .map(|si| (smaller_keyf(&si), si)).collect() into a HashMap: key -> the
\* element of smaller under it (a later element replaces an earlier one)
collect(smaller) ==
    [ k \in { smaller[j] : j \in 1..Len(smaller) } |->
        CHOOSE j \in 1..Len(smaller) :
            /\ smaller[j] = k
            /\ \A j2 \in 1..Len(smaller) : smaller[j2] = k => j2 <= j ]

\* HashMap::remove: the map without the key k
hashmap_remove(map, k) == [ k2 \in DOMAIN map \ { k } |-> map[k2] ]

\* merge_join_subset_by: the HashMap is built at once, the iterator is lazy
merge_join_subset_by(bigger, smaller) ==
    [ pc |-> "iter", bigger |-> bigger, smaller |-> smaller,
      map |-> collect(smaller), pos |-> 1, out |-> << >> ]

\* next() of the filter_map: elements of bigger are taken until the closure
\* returns Some, or bigger is at its end
RECURSIVE filter_map_next(_)
filter_map_next(j) ==
    IF j.pos > Len(j.bigger)
    THEN [ j EXCEPT !.pc = "done" ]
    ELSE LET k == j.bigger[j.pos]
         IN  IF k \in DOMAIN j.map
             THEN [ j EXCEPT !.pos = j.pos + 1,
                             !.map = hashmap_remove(j.map, k),
                             !.out = Append(j.out, << k, j.pos, j.map[k] >>) ]
             ELSE filter_map_next([ j EXCEPT !.pos = j.pos + 1 ])

MergeJoinCallWith(bigger, smaller) ==
    /\ join.pc = "none"
    /\ join' = merge_join_subset_by(bigger, smaller)
    /\ UNCHANGED << now, ticks, events, current_config, irelays,
                    last_irelay_selection_outcome, pc, wake, publish_set,
                    keystore, storage, nextLid, faults, accept_calls,
                    loop_count, selected, key_id, estabs, status_tasks,
                    lifevars >>
    /\ UNCHANGED << publish_status, last_uploaded, reattempt_upload,
                    schedule_upload, reminder, dirty, upload_tasks, hsdir_vars,
                    wallclock, svc_config, reconfigured >>

MergeJoinCall ==
    \E bigger \in JoinInputs : \E smaller \in JoinInputs :
        MergeJoinCallWith(bigger, smaller)

MergeJoinNext ==
    /\ join.pc = "iter"
    /\ join' = filter_map_next(join)
    /\ UNCHANGED << now, ticks, events, current_config, irelays,
                    last_irelay_selection_outcome, pc, wake, publish_set,
                    keystore, storage, nextLid, faults, accept_calls,
                    loop_count, selected, key_id, estabs, status_tasks,
                    lifevars >>
    /\ UNCHANGED << publish_status, last_uploaded, reattempt_upload,
                    schedule_upload, reminder, dirty, upload_tasks, hsdir_vars,
                    wallclock, svc_config, reconfigured >>

NextJoin ==
    \/ MergeJoinCall
    \/ MergeJoinNext

SpecJoin == Init /\ [][NextJoin]_vars

\* ------------------------------------------- the progress loop of run_once

ProgressEvents == 1

\* run_once: one call of idempotently_progress_things_now in the loop, when
\* every creation of an IPT and every selection of a relay may fail, however
\* many did before
ProgressFailing ==
    /\ pc = "progress"
    /\ \E r \in relay_picks(forget_retired_relays(forget_old_ipts(irelays, now), now)),
          d \in ipt_relay_rotation_time,
          io_fault \in { "none", "keystore", "replaylog" },
          netdir_ok \in BOOLEAN :
         LET res == idempotently_progress_things_now(irelays, now, r, d,
                                                     io_fault, netdir_ok)
             smooth == idempotently_progress_things_now(irelays, now, r, d,
                                                        "none", TRUE)
             failed == io_fault # "none" \/ ~netdir_ok
         IN  /\ failed => res # smooth
             /\ res.nextLid <= MaxLid + 1
             /\ irelays' = res.irelays
             /\ last_irelay_selection_outcome' = res.outcome
             /\ keystore' = res.keystore
             /\ nextLid' = res.nextLid
             /\ wake' = res.wake
             /\ pc' = IF res.ret = "DONE" THEN "publish" ELSE "progress"
             /\ faults' = IF failed THEN faults + 1 ELSE faults
             /\ key_id' = store_keys(key_id, res.keystore \ keystore, epoch)
             /\ estabs' = make_new_ipts(drop_estabs(estabs, res.irelays),
                                        irelays, res.irelays, keystore, key_id,
                                        epoch)
             /\ status_tasks' = status_tasks
                    \cup { << epoch, lid >> :
                             lid \in AllLids(res.irelays) \ AllLids(irelays) }
    /\ loop_count' = loop_count + 1
    /\ UNCHANGED << now, ticks, current_config, publish_set, storage, events >>
    /\ UNCHANGED << accept_calls, selected, lifevars >>
    /\ UNCHANGED reactor_vars

\* run_once: the end of the range loop_limit, at which the loop panics
loop_limit == (target_n_intro_points + 1) * 10000

NextProgress ==
    \/ RunOnceBegin
    \/ ProgressFailing
    \/ Publish
    \/ TimerExpiry
    \/ StatusUpdate
    \/ DirEvent
    \/ NewConfig
    \/ Tick

\* the start of the behaviours that follow the loop: they see at most
\* ProgressEvents events
InitProgress == InitSpent(0, MaxEvents - ProgressEvents)

SpecProgress == InitProgress /\ [][NextProgress]_vars

\* ------------------------------------------- status updates and the clock

MaxStatusTime == 2
StatusEvents == 2

\* runtime.now() as a mock runtime may hand it out: any instant, also an
\* earlier one than the last, before the manager runs and while it sleeps
MockClock ==
    /\ pc \in { "top", "wait" }
    /\ now' \in (0..MaxStatusTime) \ { now }
    /\ UNCHANGED << ticks, current_config, irelays,
                    last_irelay_selection_outcome, pc, wake, publish_set,
                    keystore, storage, nextLid, faults, events >>
    /\ UNCHANGED << selected, armvars, lifevars >>
    /\ UNCHANGED reactor_vars

\* the manager, the status updates it gets and its clock
NextStatus ==
    \/ RunOnceBegin
    \/ Progress
    \/ Publish
    \/ StatusUpdate
    \/ MockClock

\* the start of the behaviours that follow the status updates: no I/O
\* failure, at most StatusEvents updates
InitStatus == InitSpent(MaxFaults, MaxEvents - StatusEvents)

SpecStatus == InitStatus /\ [][NextStatus]_vars

\* ------------------------------------------- an upload task, HsDir by HsDir

\* a snapshot that finds IPTs whether there are any or not
snapshot_ipts_any(ps) == TRUE

\* upload_for_time_period: ipt_set.ipts.as_mut() is Some
snapshot_ipts(ps) == ps.ipts.some

\* the task after its closure returned the error "no introduction points":
\* try_collect ends the stream, the task is about to end and report
aborted_task(task) ==
    [ period |-> task.period, hs_dirs |-> task.hs_dirs, descs |-> task.descs,
      aborted |-> TRUE ]

has_aborted(task) == "aborted" \in DOMAIN task

\* upload_for_time_period, the closure for the next HsDir of the i-th task:
\* the snapshot of the IPT set, the descriptor built from it, the
\* publication noted in the shared set, and the upload with its outcome
UploadSnapshotWith(i, upload_res) ==
    /\ i \in 1..Len(tasks)
    /\ ~has_aborted(tasks[i])
    /\ Len(tasks[i].descs) < Len(tasks[i].hs_dirs)
    /\ offset_within_period(tasks[i].period, wallclock) # None
    /\ IF snapshot_ipts(publish_set)
       THEN /\ tasks' = [ tasks EXCEPT ![i].descs =
                            Append(@, [ relay_ids |-> tasks[i].hs_dirs[Len(@) + 1],
                                        upload_res |-> upload_res,
                                        revision_counter |->
                                          generate_revision_counter(
                                              tasks[i].period, wallclock) ]) ]
            /\ publish_set' = note_publication_attempt(publish_set,
                                                       now + UPLOAD_TIMEOUT)
       ELSE /\ tasks' = [ tasks EXCEPT ![i] = aborted_task(tasks[i]) ]
            /\ UNCHANGED publish_set
    /\ UNCHANGED << now, ticks, events, current_config, irelays,
                    last_irelay_selection_outcome, pc, wake, keystore, storage,
                    nextLid, faults, accept_calls, loop_count, selected,
                    key_id, estabs, status_tasks, lifevars, service_vars,
                    wallclock >>
    /\ UNCHANGED << publish_status, last_uploaded, reattempt_upload,
                    schedule_upload, reminder, dirty, upload_tasks, netdir,
                    time_periods >>

UploadSnapshot ==
    \E i \in 1..Len(tasks) : \E upload_res \in { "Success", "Failure" } :
        UploadSnapshotWith(i, upload_res)

\* upload_for_time_period, after try_collect: the i-th task has an outcome
\* for each of its HsDirs and sends them; run_once: handle_upload_results
UploadResultsSentWith(i) ==
    /\ i \in 1..Len(tasks)
    /\ ~has_aborted(tasks[i])
    /\ Len(tasks[i].descs) = Len(tasks[i].hs_dirs)
    /\ tasks' = RemoveAt(tasks, i)
    /\ time_periods' =
          handle_upload_results(time_periods,
                                [ time_period |-> tasks[i].period,
                                  hsdir_result |-> tasks[i].descs ])
    /\ UNCHANGED << now, ticks, events, manager_vars, wallclock >>
    /\ UNCHANGED << publish_status, last_uploaded, reattempt_upload,
                    schedule_upload, reminder, netdir >>
    /\ HsSummary

UploadResultsSent == \E i \in 1..Len(tasks) : UploadResultsSentWith(i)

\* the manager publishes a set of IPTs, or withdraws it
IptSetChange ==
    /\ publish_set' = [ publish_set EXCEPT !.ipts =
                          IF publish_set.ipts.some THEN NoIptSet
                          ELSE SomeIptSet(<< 1 >>, IPT_PUBLISH_UNCERTAIN) ]
    /\ UNCHANGED << now, ticks, events, current_config, irelays,
                    last_irelay_selection_outcome, pc, wake, keystore, storage,
                    nextLid, faults, accept_calls, loop_count, selected,
                    key_id, estabs, status_tasks, lifevars, reactor_vars >>

NextUpload ==
    \/ IptChangeHs
    \/ IptSetChange
    \/ ScheduleUpload
    \/ PublishStatusChangedHs
    \/ RateLimitPasses
    \/ UploadSnapshot
    \/ UploadResultsSent
    \/ UploadTaskFailsHs

SpecUpload == InitReactor /\ [][NextUpload]_vars

\* ------------------------------------------- failed uploads and their retry

\* upload_for_time_period returns the error of its closure, which found no
\* IPTs or a wall clock that is not within the time period
\* (generate_revision_counter): the task ends and sends nothing
UploadTaskErr ==
    /\ \E i \in 1..Len(tasks) :
          /\ \/ has_aborted(tasks[i])
             \/ /\ Len(tasks[i].descs) < Len(tasks[i].hs_dirs)
                /\ offset_within_period(tasks[i].period, wallclock) = None
          /\ tasks' = RemoveAt(tasks, i)
    /\ UNCHANGED << now, ticks, events, manager_vars, wallclock >>
    /\ UNCHANGED << publish_status, last_uploaded, reattempt_upload,
                    schedule_upload, reminder, netdir, time_periods >>
    /\ HsSummary

\* the clock advances to the next time something waits for: the end of the
\* rate limit, or the time the reminder task sleeps until
ClockToDeadline ==
    /\ ticks < MaxReactorTicks
    /\ ticks' = ticks + 1
    /\ now' \in { t \in { reminder.until } : t > now }
                \cup { t \in { last_uploaded + UPLOAD_RATE_LIM_THRESHOLD } :
                         last_uploaded # None /\ t > now }
    /\ UNCHANGED << events, manager_vars, reactor_vars >>

\* the publisher with its upload tasks, its reminder task and the clock,
\* and the IPT changes it hears of; the consensus stays as it is
NextRetry ==
    \/ IptChangeHs
    \/ IptSetChange
    \/ ScheduleUpload
    \/ PublishStatusChangedHs
    \/ ReminderRecv
    \/ ReminderSend
    \/ ClockToDeadline
    \/ UploadSnapshot
    \/ UploadResultsSent
    \/ UploadTaskErr

\* the runtime keeps running the reactor, the upload tasks and the reminder
\* task while they can take a step, and time passes; nothing makes the IPT
\* manager publish another change
SpecRetry ==
    /\ InitReactor
    /\ [][NextRetry]_vars
    /\ WF_vars(ScheduleUpload \/ PublishStatusChangedHs \/ UploadResultsSent)
    /\ WF_vars(UploadSnapshot \/ UploadTaskErr)
    /\ WF_vars(ReminderRecv \/ ReminderSend)
    /\ WF_vars(ClockToDeadline)

\* --------------------------- uploads in flight when all is marked dirty

\* how many of the task's descriptors were built before the latest
\* mark_all_dirty: kept beside the task, the code has no such record
stale_count(task) == IF "stale" \in DOMAIN task THEN task.stale ELSE 0

\* the running tasks at a call of mark_all_dirty: the descriptors they have
\* built so far are older than the call
mark_in_flight(ts) ==
    [ i \in 1..Len(ts) |->
        IF has_aborted(ts[i]) THEN ts[i]
        ELSE [ period |-> ts[i].period, hs_dirs |-> ts[i].hs_dirs,
               descs |-> ts[i].descs, stale |-> Len(ts[i].descs) ] ]

\* handle_ipt_change, with the HsDir lists, while upload tasks run
IptChangeInFlightWith(ipts_some) ==
    /\ events < MaxHsEvents
    /\ events' = events + 1
    /\ time_periods' = mark_all_dirty(time_periods)
    /\ publish_status' = watch_send(note_ipt_change(ipts_some))
    /\ tasks' = mark_in_flight(tasks)
    /\ UNCHANGED << now, ticks, manager_vars, wallclock >>
    /\ UNCHANGED << last_uploaded, reattempt_upload, schedule_upload,
                    reminder, netdir >>
    /\ HsSummary

\* note_ipt_change reads the shared set the upload tasks take their snapshots of
IptChangeInFlight == IptChangeInFlightWith(publish_set.ipts.some)

\* handle_svc_config_change, with the HsDir lists, while upload tasks run
ConfigChangeInFlight ==
    /\ events < MaxHsEvents
    /\ events' = events + 1
    /\ time_periods' = mark_all_dirty(time_periods)
    /\ publish_status' =
          update_publish_status_unless_waiting(publish_status, "UploadScheduled")
    /\ tasks' = mark_in_flight(tasks)
    /\ UNCHANGED << now, ticks, manager_vars, wallclock >>
    /\ UNCHANGED << last_uploaded, reattempt_upload, schedule_upload,
                    reminder, netdir >>
    /\ HsSummary

NextInFlight ==
    \/ IptChangeInFlight
    \/ ConfigChangeInFlight
    \/ IptSetChange
    \/ ScheduleUpload
    \/ PublishStatusChangedHs
    \/ ReminderRecv
    \/ ReminderSend
    \/ ClockToDeadline
    \/ UploadSnapshot
    \/ UploadResultsSent
    \/ UploadTaskErr

SpecInFlight == InitReactor /\ [][NextInFlight]_vars

\* ------------------------------------------------------------ properties

\* the lids publish_set.ipts names (none when it is None)
PublishedLids == Range(publish_set.ipts.ipts)

\* every lid published is a current Good IPT of the manager, and there are
\* at most num_intro_points of them
PublishSetSound ==
    publish_set.ipts.some =>
        /\ Len(publish_set.ipts.ipts) <= current_config
        /\ \A lid \in PublishedLids :
             \E ipt \in AllIpts(irelays) :
                ipt.lid = lid /\ ipt.is_current /\ ipt.kind = "Good"

\* C1: whenever the manager has released the lock at the end of an iteration
\* and waits, a to_publish that is Some holds at most num_intro_points IPTs,
\* each of them a current IPT of the manager state whose status is Good.
C1_PublishSetSoundAtRelease == pc = "wait" => PublishSetSound

\* C1 as stated: the same in every reachable state, also between an event
\* the manager has handled and its next iteration.
C1_PublishSetSoundAlways == PublishSetSound

\* C1: the manager waits with more Good current IPTs than it may publish,
\* and publishes num_intro_points of them
C1_Witness ==
    /\ pc = "wait"
    /\ publish_set.ipts.some
    /\ Cardinality(good_ipts(irelays)) > current_config
    /\ Len(publish_set.ipts.ipts) = current_config

\* C2: in every reachable state, every (lid, expiry) of the shared
\* last_descriptor_expiry_including_slop map whose expiry is later than now
\* names an IPT the manager still holds.
C2_PublishedIptsHeld ==
    \A lid \in DOMAIN publish_set.last_descriptor_expiry_including_slop :
        publish_set.last_descriptor_expiry_including_slop[lid] > now
            => lid \in AllLids(irelays)

\* C2: the progress loop has run over an IPT that is no longer current and
\* whose descriptor, noted by the publisher, has not expired
C2_Witness ==
    /\ pc = "publish"
    /\ \E ipt \in AllIpts(irelays) :
          /\ ~ipt.is_current
          /\ ipt.lid \in DOMAIN publish_set.last_descriptor_expiry_including_slop
          /\ publish_set.last_descriptor_expiry_including_slop[ipt.lid] > now
          /\ ipt.last_descriptor_expiry_including_slop
                = publish_set.last_descriptor_expiry_including_slop[ipt.lid]

\* C3: a step removes an IPT from the manager state only if the IPT is not
\* current and its last descriptor expiry is absent or not later than now.
C3_RemovalOnlyAfterExpiry ==
    [][ \A ipt \in AllIpts(irelays) :
          ipt.lid \notin AllLids(irelays')
            => /\ ~ipt.is_current
               /\ \/ ipt.last_descriptor_expiry_including_slop = None
                  \/ ipt.last_descriptor_expiry_including_slop <= now ]_vars

\* C3: nothing failed, so every lid drawn was an IPT of the manager state,
\* and one of them has been removed
C3_Witness ==
    /\ faults = 0
    /\ \E lid \in 1..(nextLid - 1) : lid \notin AllLids(irelays)

\* the publisher can take the lock: every IPT to_publish names is in the
\* persisted inventory
PublishedArePersisted ==
    (pc \in { "wait", "top" } /\ publish_set.ipts.some)
        => PublishedLids \subseteq { rec.lid : rec \in storage }

\* the store failed in this iteration: to_publish is None at the release and
\* a wake-up for the retry is scheduled
StoreFailureHandled ==
    (Publish /\ faults' > faults)
        => /\ ~publish_set'.ipts.some
           /\ wake' # None
           /\ now < wake'
           /\ wake' <= now + STORE_RETRY_WAIT

\* C4: whenever the publisher can observe the shared set, every IPT named by
\* to_publish is in the persisted inventory; and when the store fails,
\* to_publish is None at the release of the lock and a retry wake-up is set.
C4_PersistBeforePublish ==
    [] PublishedArePersisted /\ [][ StoreFailureHandled ]_vars

\* C4: the store failed although enough IPTs were Good; nothing is published
\* and the manager waits for the retry
C4_Witness ==
    /\ pc = "wait"
    /\ faults = 1
    /\ Cardinality(good_ipts(irelays)) >= current_config
    /\ ~publish_set.ipts.some
    /\ wake = now + STORE_RETRY_WAIT
    /\ storage # inventory(irelays)

\* C5: every IPT of the manager state has both of its keys, K_sid and
\* K_hss_ntor, in the keystore.
C5_KeysInKeystore ==
    \A ipt \in AllIpts(irelays) :
        { << "KSid", ipt.lid >>, << "KHssNtor", ipt.lid >> } \subseteq keystore

\* C5: a creation failed before, and the IPTs created since have their keys
C5_Witness ==
    /\ faults = 1
    /\ Cardinality(AllLids(irelays)) >= 2
    /\ \A ipt \in AllIpts(irelays) :
          { << "KSid", ipt.lid >>, << "KHssNtor", ipt.lid >> } \subseteq keystore

\* C6: the number of IPT relays never grows beyond twice num_intro_points of
\* the current configuration: a step that adds a relay leaves at most that
\* many.
C6_RelaysGrowOnlyBelowCap ==
    [][ Len(irelays') > Len(irelays)
          => Len(irelays') <= 2 * current_config' ]_vars

\* C6 as stated: at most twice num_intro_points relays in every reachable
\* state, also after a configuration update.
C6_RelaysAtMostTwiceN == Len(irelays) <= 2 * current_config

\* C6: more relays are wanted, but the limit is reached
C6_Witness ==
    /\ pc = "wait"
    /\ Len(irelays) = 2 * current_config
    /\ last_irelay_selection_outcome = "Ok"
    /\ Cardinality({ ipt \in current_ipts(irelays) : ipt.kind # "Faulty" })
          < current_config

\* the current IPTs of relay i, by position
CurrentAt(i) ==
    { k \in 1..Len(irelays[i].ipts) : irelays[i].ipts[k].is_current }

\* C7: each relay has at most one IPT with is_current set, in every
\* reachable state; and is_current of an IPT already held is never set, only
\* cleared.
C7_OneCurrentPerRelay ==
    /\ [] (\A i \in 1..Len(irelays) : Cardinality(CurrentAt(i)) <= 1)
    /\ [][ \A new \in AllIpts(irelays') :
             (new.is_current /\ new.lid \in AllLids(irelays))
               => \E old \in AllIpts(irelays) :
                     old.lid = new.lid /\ old.is_current ]_vars

\* C7: a relay holds a retired IPT next to its current one
C7_Witness ==
    \E i \in 1..Len(irelays) :
        /\ Len(irelays[i].ipts) >= 2
        /\ Cardinality(CurrentAt(i)) = 1

\* C8: started without persisted state, with at least num_intro_points
\* eligible relays and nothing failing, the manager waits after its first
\* iteration, and as long as no status, configuration or directory event
\* arrives, with exactly num_intro_points relays, all distinct, each with
\* exactly one IPT, current and Establishing, and with exactly
\* num_intro_points establishers created so far.
C8_ColdStart ==
    (pc = "wait" /\ faults = 0 /\ events = 0)
        => /\ Len(irelays) = current_config
           /\ \A i, j \in 1..Len(irelays) :
                i # j => irelays[i].relay # irelays[j].relay
           /\ \A i \in 1..Len(irelays) :
                /\ Len(irelays[i].ipts) = 1
                /\ irelays[i].ipts[1].is_current
                /\ irelays[i].ipts[1].kind = "Establishing"
           /\ Cardinality(AllLids(irelays)) = current_config
           /\ nextLid - 1 = current_config

\* C8: the cold start with the largest num_intro_points, still in that
\* state after the timer has woken the manager
C8_Witness ==
    /\ pc = "wait"
    /\ faults = 0
    /\ events = 0
    /\ current_config = MaxN
    /\ Len(irelays) = MaxN
    /\ ticks = MaxTicks
    /\ now > DAY

\* C9: whenever the manager waits after an iteration at whose end no
\* current IPT is Good, to_publish is None.
C9_NothingGoodNothingPublished ==
    (pc = "wait" /\ good_ipts(irelays) = {}) => ~publish_set.ipts.some

\* C9: an IPT was published before (the publisher's expiry was imported),
\* and now no current IPT is Good and to_publish is None
C9_Witness ==
    /\ pc = "wait"
    /\ good_ipts(irelays) = {}
    /\ ~publish_set.ipts.some
    /\ \E ipt \in AllIpts(irelays) :
          ipt.last_descriptor_expiry_including_slop # None

\* when the current Establishing IPTs started
EstablishingStarts(irs) ==
    { ipt.started : ipt \in { x \in current_ipts(irs) : x.kind = "Establishing" } }

\* the establish times known of the current Good IPTs
KnownEstablishTimes(irs) ==
    { ipt.time_to_establish :
        ipt \in { x \in current_ipts(irs) :
                    x.kind = "Good" /\ x.time_to_establish >= 0 } }

\* some but fewer than num_intro_points current IPTs are Good and the
\* fastest of them has a known establish time
PartialGood(irs) ==
    /\ good_ipts(irs) # {}
    /\ Cardinality(good_ipts(irs)) < current_config
    /\ KnownEstablishTimes(irs) # {}

\* Some of exactly the Good current IPTs, with the 30 minute lifetime
PublishesGoodUncertain(ps, irs) ==
    /\ ps.ipts.some
    /\ Range(ps.ipts.ipts) = { ipt.lid : ipt \in good_ipts(irs) }
    /\ Len(ps.ipts.ipts) = Cardinality(good_ipts(irs))
    /\ ps.ipts.lifetime = 30 * 60

RelayIdxOf(irs, lid) ==
    CHOOSE i \in 1..Len(irs) : \E k \in 1..Len(irs[i].ipts) : irs[i].ipts[k].lid = lid

\* C11: when an iteration ends with at least num_intro_points Good current
\* IPTs (and the store succeeds), to_publish is Some with lifetime 12 h and
\* holds exactly num_intro_points of them, in the order of State.irelays,
\* and every Good current IPT left out is at a relay chosen earlier than all
\* the published ones.
C11_LastTargetGoodCertain ==
    [][ (Publish /\ faults' = faults
           /\ Cardinality(good_ipts(irelays)) >= current_config)
          => LET ps == publish_set'.ipts
                 G == { ipt.lid : ipt \in good_ipts(irelays) }
             IN  /\ ps.some
                 /\ ps.lifetime = 12 * 3600
                 /\ Len(ps.ipts) = current_config
                 /\ Range(ps.ipts) \subseteq G
                 /\ \A k, l \in 1..Len(ps.ipts) :
                      k < l => RelayIdxOf(irelays, ps.ipts[k])
                                 < RelayIdxOf(irelays, ps.ipts[l])
                 /\ \A g \in G \ Range(ps.ipts) : \A k \in 1..Len(ps.ipts) :
                      RelayIdxOf(irelays, g) < RelayIdxOf(irelays, ps.ipts[k]) ]_vars

\* C11: the IPT of the relay chosen first is Good and current but left out
\* of a published set with the 12 h lifetime
C11_Witness ==
    /\ pc = "wait"
    /\ publish_set.ipts.some
    /\ publish_set.ipts.lifetime = IPT_PUBLISH_CERTAIN
    /\ Len(irelays) >= 2
    /\ \E ipt \in good_ipts(irelays) :
          /\ ipt.lid \notin PublishedLids
          /\ RelayIdxOf(irelays, ipt.lid) = 1


\* C12 as stated: start_accepting is invoked once on each establisher whose
\* IPT is placed in the publish set, and not again in a later iteration
C12_AcceptedOnce == \A lid \in 1..MaxLid : accept_calls[lid] <= 1

\* the Good current IPTs of the manager state, by lid
GoodCurrentLids == { ipt.lid : ipt \in good_ipts(irelays) }

\* C12: start_accepting is invoked only at the end of run_once and only on
\* establishers of Good current IPTs selected for publication; every
\* iteration that publishes a set invokes it on each IPT of that set, again
\* if the IPT was in the set before; so every IPT of the published set has
\* been told to accept
C12_AcceptingFollowsSelection ==
    /\ [] (PublishedLids \subseteq { lid \in 1..MaxLid : accept_calls[lid] >= 1 })
    /\ [][ \A lid \in 1..MaxLid :
             /\ accept_calls'[lid] # accept_calls[lid]
                  => /\ pc = "publish"
                     /\ lid \in GoodCurrentLids
                     /\ lid \in Range(publish_set_select(irelays))
                     /\ faults' = faults => lid \in Range(publish_set'.ipts.ipts)
             /\ (pc = "publish" /\ lid \in Range(publish_set'.ipts.ipts))
                  => accept_calls'[lid] = Min({ accept_calls[lid] + 1, MaxCalls })
         ]_vars

\* an IPT that stayed in the publish set was told to accept a second time,
\* while another current IPT of the manager never was
C12_Witness ==
    /\ pc = "wait"
    /\ \E lid \in PublishedLids : accept_calls[lid] >= 2
    /\ \E ipt \in current_ipts(irelays) : accept_calls[ipt.lid] = 0


\* nothing remains of a manager that has ended: its IPTs and establishers
\* are dropped and so is each of its status-forwarding tasks
NothingRemains ==
    /\ managers = 0 => (pc = "terminated" /\ estabs = {} /\ irelays = << >>)
    /\ \A task \in status_tasks : task[1] = epoch /\ managers = 1

C13_RestartSameInventory ==
    /\ [][ (pc = "wait" /\ pc' = "terminated" /\ faults = 0)
             => storage = inventory(irelays) ]_vars
    /\ [][ (managers = 0 /\ managers' = 1
              /\ { rec.lid : rec \in storage } = { e.lid : e \in estabs_inventory })
             => estabs' = estabs_inventory ]_vars

\* a second manager runs with the two establishers of the first one
C13_Witness ==
    /\ epoch >= 2
    /\ managers = 1
    /\ Cardinality(estabs) >= 2
    /\ estabs = estabs_inventory
    /\ \A e \in estabs : e.k_sid = 1 /\ e.k_ntor = 1

\* C14: at most one manager holds the lock of the replay log directory:
\* IptManager::new fails at once with StateLocked while a manager lives,
\* leaving that manager alone, and succeeds when the earlier manager and
\* its IPTs are gone
C14_OneManagerPerDirectory ==
    /\ [] (managers <= 1)
    /\ [] (managers = 0 <=> (pc = "terminated" /\ estabs = {}))
    /\ [][ startups' # startups =>
             IF managers >= 1
             THEN /\ last_startup' = "StateLocked"
                  /\ UNCHANGED << irelays, pc, managers, epoch, estabs,
                                  publish_set, keystore, storage, shut_closed >>
             ELSE /\ last_startup' = "Ok"
                  /\ managers' = 1
                  /\ pc' = "top" ]_vars

\* IptManager::new has failed on the locked directory and has succeeded
\* after the shutdown of the manager that held the lock
C14_Witness ==
    /\ startups = 2
    /\ epoch = 2
    /\ last_startup = "Ok"
    /\ managers = 1

\* C16 as stated: of the sources ready together the one handled is the
\* first of shutdown, timer, status, directory event, configuration
C16_ShutdownBeforeTimer ==
    selected.chosen # "none" =>
        selected.chosen =
            IF "shutdown" \in selected.ready THEN "shutdown"
            ELSE IF "timer" \in selected.ready THEN "timer"
            ELSE IF "status" \in selected.ready THEN "status"
            ELSE IF "dir" \in selected.ready THEN "dir"
            ELSE "config"

\* C16: of the sources ready together exactly one is handled in an
\* iteration, the first of timer, shutdown, status, directory event,
\* configuration: an expired timer goes before a closed shutdown channel
C16_TimerBeforeShutdown ==
    /\ [] (selected.chosen # "none" =>
            selected.chosen =
                IF "timer" \in selected.ready THEN "timer"
                ELSE IF "shutdown" \in selected.ready THEN "shutdown"
                ELSE IF "status" \in selected.ready THEN "status"
                ELSE IF "dir" \in selected.ready THEN "dir"
                ELSE "config")
    /\ [][ (pc = "wait" /\ pc' # "wait") =>
             LET c == selected'.chosen
             IN  /\ c \in selected'.ready
                 /\ c # "config" => current_config' = current_config
                 /\ c # "status" /\ c # "shutdown" => irelays' = irelays
                 /\ c = "shutdown" <=> pc' = "terminated"
                 /\ c # "shutdown" => pc' = "top" /\ managers' = managers
                 /\ events' = IF c \in { "status", "dir", "config" }
                              THEN events + 1 ELSE events ]_vars

\* the timer was handled although the shutdown channel was closed, too
C16_Witness ==
    /\ selected.chosen = "timer"
    /\ "shutdown" \in selected.ready
    /\ pc = "top"


\* relay i of the manager state is past its planned retirement
PastRetirement(i) == should_retire(irelays[i], now)

\* the lids of the current IPTs of a state of irelays
CurrentLids(irs) == { ipt.lid : ipt \in current_ipts(irs) }

\* a run_once began with num_intro_points relays, all past their planned
\* retirement and each with one Good IPT, and has rotated at least one out
RotationUnderWay ==
    /\ pc = "progress"
    /\ loop_count >= 1
    /\ faults = 0
    /\ Len(irelays) = current_config
    /\ \A i \in 1..Len(irelays) :
         /\ PastRetirement(i)
         /\ Len(irelays[i].ipts) = 1
         /\ is_good(irelays[i].ipts[1])
    /\ \E i \in 1..Len(irelays) : current_ipt(irelays[i]) = 0

\* C17 as stated: successive progress steps clear is_current on the current
\* IPT of each relay past its retirement: while such a relay is left, the
\* next step of the iteration rotates it out, too
C17_RotatesOnSuccessiveSteps ==
    (RotationUnderWay /\ \E i \in 1..Len(irelays) : current_ipt(irelays[i]) # 0)
        => rotate_out_idx(irelays, now) # 0

\* C17: retirement rotates one relay at a time. A progress step clears
\* is_current on at most one IPT, that of a relay past its planned
\* retirement, and only while at least num_intro_points current IPTs are
\* Good, leaving the IPT in place; an IPT that is not current stays while its
\* last_descriptor_expiry_including_slop has not elapsed; and no iteration
\* ends before enough relays have a Good or Establishing current IPT, or the
\* relay limit is reached, or relay selection has failed
C17_RotationOneAtATime ==
    /\ [][ pc = "progress" =>
             LET lost == CurrentLids(irelays) \ CurrentLids(irelays')
             IN  /\ Cardinality(lost) <= 1
                 /\ lost # {} =>
                      /\ Cardinality(good_ipts(irelays)) >= current_config
                      /\ PastRetirement(RelayIdxOf(irelays, CHOOSE l \in lost : TRUE))
                      /\ lost \subseteq AllLids(irelays')
         ]_vars
    /\ [][ \A ipt \in AllIpts(irelays) :
             (/\ pc \in { "top", "progress", "publish", "wait" }
              /\ pc' # "terminated"
              /\ ~ipt.is_current
              /\ ipt.last_descriptor_expiry_including_slop # None
              /\ now < ipt.last_descriptor_expiry_including_slop)
                => ipt.lid \in AllLids(irelays')
         ]_vars
    /\ [] (pc \in { "publish", "wait" } =>
             \/ n_good_ish_relays(irelays) >= current_config
             \/ Len(irelays) >= max_n_intro_relays
             \/ last_irelay_selection_outcome = "Err")

\* at the end of an iteration one relay past its retirement has been rotated
\* out, its IPT kept for the descriptor that names it; another relay past
\* its retirement still has its Good current IPT; and a new relay has a new
\* IPT that is being established
C17_Witness ==
    /\ pc = "wait"
    /\ \E i, j, k \in 1..Len(irelays) :
         /\ PastRetirement(i) /\ current_ipt(irelays[i]) = 0
         /\ \E ipt \in Range(irelays[i].ipts) :
               is_good(ipt) /\ now < ipt.last_descriptor_expiry_including_slop
         /\ PastRetirement(j) /\ current_ipt(irelays[j]) # 0
         /\ is_good(irelays[j].ipts[current_ipt(irelays[j])])
         /\ ~PastRetirement(k) /\ current_ipt(irelays[k]) # 0
         /\ irelays[k].ipts[current_ipt(irelays[k])].kind = "Establishing"
         /\ irelays[k].ipts[current_ipt(irelays[k])].started = now


\* C18: an upload cycle (an upload_all that records last_uploaded) starts
\* only when none started before or the last one started at least
\* UPLOAD_RATE_LIM_THRESHOLD seconds earlier, whatever events led to it; and
\* upload tasks are spawned only by a step that records last_uploaded as the
\* present time.
C18_UploadsRateLimited ==
    [][ /\ last_uploaded' # last_uploaded =>
             /\ last_uploaded' = now
             /\ \/ last_uploaded = None
                \/ now - last_uploaded >= UPLOAD_RATE_LIM_THRESHOLD
        /\ upload_tasks' > upload_tasks => last_uploaded' = now
      ]_vars

\* a second upload cycle has started and spawned a task
C18_Witness ==
    /\ last_uploaded # None
    /\ last_uploaded >= UPLOAD_RATE_LIM_THRESHOLD
    /\ upload_tasks > 0


\* run_once has taken a scheduled upload from publish_status_rx and calls
\* upload_all in this step
UploadAllInvoked ==
    publish_status.val = "UploadScheduled" /\ publish_status'.val = "Idle"

\* C19 as stated: a rate-limited upload_all starts no upload and asks for a
\* reminder at last_uploaded + 60 s, that is 60 s - (now - last_uploaded)
\* after the request.
C19_WakeAtLastUploadPlusLimit ==
    [][ (UploadAllInvoked /\ rate_limited(last_uploaded, now)) =>
           /\ UNCHANGED << last_uploaded, upload_tasks >>
           /\ reattempt_upload' =
                 watch_send(last_uploaded + UPLOAD_RATE_LIM_THRESHOLD)
      ]_vars

\* C19: a rate-limited upload_all starts no upload and asks for a reminder
\* 60 s after the request, at now + 60 s; the reminder task does not remind
\* the reactor before the time it was given.
C19_WakeAfterFullLimit ==
    [][ /\ (UploadAllInvoked /\ rate_limited(last_uploaded, now)) =>
             /\ UNCHANGED << last_uploaded, upload_tasks >>
             /\ reattempt_upload' = watch_send(now + UPLOAD_RATE_LIM_THRESHOLD)
        /\ (reminder.pc = "sleep" /\ reminder'.pc = "recv") =>
             /\ now >= reminder.until
             /\ schedule_upload'
      ]_vars

\* an upload was deferred some time after the last upload, and the reminder
\* has come, 60 s after the request
C19_Witness ==
    /\ last_uploaded # None
    /\ reattempt_upload.val # None
    /\ reattempt_upload.val > last_uploaded + UPLOAD_RATE_LIM_THRESHOLD
    /\ ~reattempt_upload.unseen
    /\ reminder.pc = "recv"
    /\ schedule_upload
    /\ now = reattempt_upload.val


\* reminders asked of the reminder task that it has not yet delivered: the
\* time it sleeps until, and a later time waiting in reattempt_upload
PendingWakeUps ==
    (IF reminder.pc = "sleep" THEN 1 ELSE 0)
    + (IF reattempt_upload.unseen /\ reattempt_upload.val # None THEN 1 ELSE 0)

\* C20: rate-limited upload requests are coalesced into one wake-up: at no
\* time is more than one wake-up pending, and the upload cycle that starts
\* once the limit has passed settles them all, so that no wake-up is left to
\* start a second cycle for the same requests.
C20_OneWakeUpOneCycle ==
    /\ [](PendingWakeUps <= 1)
    /\ [][last_uploaded' # last_uploaded => PendingWakeUps' = 0]_vars


\* an upload cycle starts in this step
CycleStarts ==
    last_uploaded' # last_uploaded \/ upload_tasks' > upload_tasks

\* C21: the publisher's status leaves AwaitingIpts only by an IPT change that
\* shows ipts = Some, and is then UploadScheduled; an IPT change that shows
\* ipts = None makes it AwaitingIpts whatever it was; while it is AwaitingIpts,
\* consensus and config changes and reminders leave it so and no upload cycle
\* starts; an upload cycle starts only in a step that observes UploadScheduled
\* and leaves the status Idle.
C21_StatusMachine ==
    [][ /\ (publish_status.val = "AwaitingIpts"
            /\ publish_status'.val # "AwaitingIpts") =>
              (IptChangeWith(TRUE) /\ publish_status'.val = "UploadScheduled")
        /\ IptChangeWith(FALSE) => publish_status'.val = "AwaitingIpts"
        /\ (publish_status.val = "AwaitingIpts"
            /\ (DescriptorChange \/ ScheduleUpload)) =>
              publish_status'.val = "AwaitingIpts"
        /\ publish_status.val = "AwaitingIpts" => ~CycleStarts
        /\ CycleStarts =>
              /\ publish_status.val = "UploadScheduled"
              /\ publish_status.unseen
              /\ publish_status'.val = "Idle"
      ]_vars

\* the IPTs went away after an upload was deferred; the reminder came and
\* the reactor took it and its own status while AwaitingIpts
C21_Witness ==
    /\ publish_status = [ val |-> "AwaitingIpts", unseen |-> FALSE ]
    /\ last_uploaded # None
    /\ reattempt_upload.val # None
    /\ ~reattempt_upload.unseen
    /\ reminder.pc = "recv"
    /\ ~schedule_upload
    /\ now >= reattempt_upload.val


\* the outcomes of one time period applied one by one, an outcome for an
\* HsDir that is not in the list being passed over
RECURSIVE apply_each_upload_result(_, _)
apply_each_upload_result(ctx, hsdir_result) ==
    IF hsdir_result = << >> THEN ctx
    ELSE LET res == Head(hsdir_result)
             k == hs_dir_idx(ctx.hs_dirs, res.relay_ids)
             updates == /\ k # 0
                        /\ res.upload_res = "Success"
                        /\ \/ ctx.last_successful = None
                           \/ ctx.last_successful <= res.revision_counter
         IN  apply_each_upload_result(
               IF updates
               THEN [ ctx EXCEPT !.last_successful = res.revision_counter,
                                 !.hs_dirs[k].status = "Clean" ]
               ELSE ctx,
               Tail(hsdir_result))

\* C22: handle_upload_results applies every outcome of the results it is
\* given: for each outcome whose time period and HsDir are still in the
\* publisher's state, a Success with a revision counter not below
\* last_successful sets last_successful and marks the HsDir Clean, a Failure
\* changes nothing, whatever the other outcomes of the same results are.
C22_EveryOutcomeApplied ==
    [][ \A i \in 1..Len(tasks) : \A results \in ResultsOf(tasks[i]) :
          UploadResultsWith(i, results) =>
            LET p == period_idx(time_periods, results.time_period)
            IN  /\ Len(time_periods') = Len(time_periods)
                /\ \A q \in 1..Len(time_periods) :
                     time_periods'[q] =
                        IF q = p
                        THEN apply_each_upload_result(time_periods[q],
                                                      results.hsdir_result)
                        ELSE time_periods[q]
      ]_vars


\* the status of this HsDir in the list
status_of(hs_dirs, id) == hs_dirs[hs_dir_idx(hs_dirs, id)].status

\* C23: on a consensus change, in every time period that stays active, an
\* HsDir of the new ring that was in the period's previous list keeps its
\* status, wherever it stood in the two lists and whatever was added or
\* removed; an HsDir that was not in the previous list is Dirty.
C23_StatusPreserved ==
    [][ \A nd \in NetDirs : ConsensusChangeWith(nd) =>
          \A i \in 1..Len(time_periods') :
            LET new == time_periods'[i]
                k == period_idx(time_periods, new.period)
            IN  /\ [ n \in 1..Len(new.hs_dirs) |-> new.hs_dirs[n].relay_ids ]
                      = nd.ring[new.period]
                /\ \A n \in 1..Len(new.hs_dirs) :
                     LET id == new.hs_dirs[n].relay_ids
                     IN  new.hs_dirs[n].status =
                           IF k # 0 /\ hs_dir_idx(time_periods[k].hs_dirs, id) # 0
                           THEN status_of(time_periods[k].hs_dirs, id)
                           ELSE "Dirty"
      ]_vars


\* C24: recomputing the HsDirs from the directory the publisher already has
\* leaves every time period with the same HsDir list, in the same order,
\* with the same statuses.
C24_RecomputeIdempotent ==
    [][ ConsensusChangeWith(netdir) =>
          /\ Len(time_periods') = Len(time_periods)
          /\ \A i \in 1..Len(time_periods) :
               /\ time_periods'[i].period = time_periods[i].period
               /\ time_periods'[i].hs_dirs = time_periods[i].hs_dirs
      ]_vars

\* the HsDirs were recomputed from the same directory after an upload had
\* left some of them Clean and others Dirty
C24_Witness ==
    /\ netdir = InitNetDir
    /\ events = MaxHsEvents
    /\ \E i \in 1..Len(time_periods) :
         /\ time_periods[i].last_successful = None
         /\ \E k, n \in 1..Len(time_periods[i].hs_dirs) :
              /\ time_periods[i].hs_dirs[k].status = "Clean"
              /\ time_periods[i].hs_dirs[n].status = "Dirty"


\* a task for every time period from the i-th on that has a Dirty HsDir
RECURSIVE tasks_for_dirty_periods(_, _)
tasks_for_dirty_periods(tps, i) ==
    IF i > Len(tps) THEN << >>
    ELSE LET hs_dirs == dirty_hs_dirs(tps[i])
         IN  (IF hs_dirs = << >> THEN << >>
              ELSE << [ period |-> tps[i].period, hs_dirs |-> hs_dirs,
                        descs |-> << >> ] >>)
             \o tasks_for_dirty_periods(tps, i + 1)

\* C25: an upload cycle that is not rate-limited spawns a task for each time
\* period that has a Dirty HsDir, for all its Dirty HsDirs, and none for a
\* time period without one, which does not keep the other time periods from
\* being uploaded.
C25_TaskPerDirtyPeriod ==
    [][ (UploadAllInvoked /\ ~rate_limited(last_uploaded, now)) =>
          tasks' = tasks \o tasks_for_dirty_periods(time_periods, 1)
      ]_vars


\* the revision counters of the descriptors the running tasks have built
\* for this time period
BuiltCounters(period) ==
    UNION { { tasks[i].descs[n].revision_counter : n \in 1..Len(tasks[i].descs) } :
              i \in { k \in 1..Len(tasks) : tasks[k].period = period } }

\* the revision counter of the descriptor the i-th task builds in this step
NewCounter(i) == tasks'[i].descs[Len(tasks'[i].descs)].revision_counter

ForbiddenChange(other) ==
    other.nickname # svc_config.nickname \/ other.anonymity # svc_config.anonymity

\* C27 as stated: a reconfiguration that would change nickname or anonymity
\* gets an error from for_transition_to under every policy, and the running
\* configuration keeps its nickname and anonymity.
C27_ForbiddenChangeIsError ==
    [][ \A other \in OnionServiceConfigs : \A how \in Reconfigure :
          (ReconfigureWith(other, how) /\ ForbiddenChange(other)) =>
            /\ reconfigured'.result = "Err"
            /\ svc_config' = svc_config
      ]_vars

\* C27: a reconfiguration that would change nickname or anonymity gets an
\* error under AllOrNothing and CheckAllOrNothing; under WarnOnFailures it
\* gets the new configuration with the running nickname and anonymity put
\* back; under no policy does the configuration returned or the running
\* configuration differ from the running one in nickname or anonymity.
C27_ForbiddenChangeNeverTaken ==
    [][ \A other \in OnionServiceConfigs : \A how \in Reconfigure :
          ReconfigureWith(other, how) =>
            /\ reconfigured'.config.nickname = svc_config.nickname
            /\ reconfigured'.config.anonymity = svc_config.anonymity
            /\ svc_config'.nickname = svc_config.nickname
            /\ svc_config'.anonymity = svc_config.anonymity
            /\ ForbiddenChange(other) =>
                 IF how = "WarnOnFailures"
                 THEN /\ reconfigured'.result = "Ok"
                      /\ reconfigured'.config =
                            [ other EXCEPT !.nickname = svc_config.nickname,
                                           !.anonymity = svc_config.anonymity ]
                 ELSE /\ reconfigured'.result = "Err"
                      /\ svc_config' = svc_config
      ]_vars

\* under WarnOnFailures a configuration with another nickname and another
\* anonymity was given, and the service took its other settings
C27_Witness ==
    /\ reconfigured.how = "WarnOnFailures"
    /\ reconfigured.result = "Ok"
    /\ reconfigured.other.nickname # svc_config.nickname
    /\ reconfigured.other.anonymity # svc_config.anonymity
    /\ svc_config = reconfigured.config
    /\ svc_config.max_concurrent_streams_per_circuit = MaxStreams

\* ---- C28

\* no key occurs twice in the input s
NoDuplicateKeys(s) == \A i, j \in 1..Len(s) : s[i] = s[j] => i = j

\* the keys of bigger that are also keys of smaller, in the order of bigger,
\* each with the position of its element in bigger and in smaller
JoinedKeys(bigger, smaller) ==
    LET both == SelectSeq([ i \in 1..Len(bigger) |-> i ],
                          LAMBDA i : \E j \in 1..Len(smaller) :
                                        smaller[j] = bigger[i])
    IN  [ n \in 1..Len(both) |->
            << bigger[both[n]], both[n],
               CHOOSE j \in 1..Len(smaller) : smaller[j] = bigger[both[n]] >> ]

\* C28: for inputs without duplicate keys, merge_join_subset_by yields exactly
\* the keys present in both inputs, each once, in the order of bigger, each
\* with its element of bigger and its element of smaller; a key that only one
\* input has yields nothing, also when smaller is not a subset of bigger.
C28_JoinYieldsCommonKeys ==
    (/\ join.pc = "done"
     /\ NoDuplicateKeys(join.bigger)
     /\ NoDuplicateKeys(join.smaller))
    => join.out = JoinedKeys(join.bigger, join.smaller)

\* a finished join of inputs without duplicates where each input has a key
\* the other lacks, and two keys are common, in different orders
C28_Witness ==
    /\ join.pc = "done"
    /\ NoDuplicateKeys(join.bigger)
    /\ NoDuplicateKeys(join.smaller)
    /\ Len(join.out) = 2
    /\ \E j \in 1..Len(join.smaller) :
          \A i \in 1..Len(join.bigger) : join.bigger[i] # join.smaller[j]
    /\ \E i \in 1..Len(join.bigger) :
          \A j \in 1..Len(join.smaller) : join.bigger[i] # join.smaller[j]
    /\ join.out[1][3] > join.out[2][3]

\* ---- C29

\* what is left to do for the progress loop at time t: current IPTs to rotate
\* out, IPTs to create, relays to select, and one failure of the selection
ProgressVariant ==
    LET retiring == { i \in 1..Len(irelays) : should_retire(irelays[i], now) }
        staying == (1..Len(irelays)) \ retiring
        to_rotate == { i \in retiring : current_ipt(irelays[i]) # 0 }
        to_create == { i \in staying : current_ipt(irelays[i]) = 0 }
        to_select == IF max_n_intro_relays > Cardinality(staying)
                     THEN max_n_intro_relays - Cardinality(staying) ELSE 0
    IN  Cardinality(to_rotate) + Cardinality(to_create) + to_select + to_select
          + (IF last_irelay_selection_outcome = "Ok" THEN 1 ELSE 0)

\* the most that can be left to do when the loop starts
ProgressVariantBound == NRelays + max_n_intro_relays + max_n_intro_relays + 1

\* C29: with the time and the inputs held fixed (the lock is held), the
\* calls of progress() made in one run_once reach a call that returns the
\* wake-up deadline after fewer than 10_000 x (num_intro_points + 1) calls,
\* also when the creation of IPTs and the selection of relays keep failing:
\* every call that asks to be run again leaves less to do, so the calls made
\* plus what is left to do never exceed a bound far below the loop limit, and
\* the loop-limit panic is not reached.
C29_ProgressLoopTerminates ==
    pc \in { "progress", "publish" } =>
        /\ loop_count + (IF pc = "progress" THEN ProgressVariant ELSE 0)
              <= ProgressVariantBound + 1
        /\ ProgressVariantBound + 1 < loop_limit
        /\ loop_count <= loop_limit

\* the first loop of a manager has returned after five calls, three of which
\* failed to create an IPT or to select a relay
C29_Witness ==
    /\ pc = "publish"
    /\ events = MaxEvents - ProgressEvents
    /\ ticks = 0
    /\ loop_count >= 5
    /\ faults >= 3

\* ---- C30

\* C30: after expire_old_expiry_times at time now, the last step of a manager
\* iteration under the lock, the shared last_descriptor_expiry map holds no
\* entry with expiry <= now, and every entry with expiry > now that it held
\* before is still there with the same value.
C30_StaleExpiriesDropped ==
    [][ (pc = "publish" /\ pc' # "publish") =>
          LET before == publish_set.last_descriptor_expiry_including_slop
              after == publish_set'.last_descriptor_expiry_including_slop
          IN  /\ \A lid \in DOMAIN after : after[lid] > now
              /\ \A lid \in DOMAIN before :
                    before[lid] > now =>
                        (lid \in DOMAIN after /\ after[lid] = before[lid]) ]_vars

\* ---- C31

\* the relays of the IPT Relays held
HeldRelays(irs) == { irs[i].relay : i \in 1..Len(irs) }

\* no two IPT Relays held are the same relay
DistinctRelays(irs) ==
    \A i, j \in 1..Len(irs) : irs[i].relay = irs[j].relay => i = j

\* C31: no two IPT Relays held by the manager share a relay identifier, in
\* every reachable state: a step only adds a relay that is an HS-intro
\* candidate of the directory and that is not the relay of any IPT Relay
\* still held, the retiring ones and those with Faulty IPTs included.
C31_RelaysDistinct ==
    /\ DistinctRelays(irelays)
    /\ [][ /\ DistinctRelays(irelays')
           /\ \A j \in 1..Len(irelays') :
                (\A i \in 1..Len(irelays) : irelays[i] # irelays'[j]
                                             /\ irelays'[j].ipts = << >>)
                  => /\ irelays'[j].relay \in Relays
                     /\ \A i \in 1..Len(irelays') :
                          i # j => irelays'[i].relay # irelays'[j].relay ]_vars

\* a relay has just been chosen while a relay whose IPT is Faulty is held
C31_Witness ==
    /\ Len(irelays) >= 2
    /\ irelays[Len(irelays)].ipts = << >>
    /\ \E i \in 1..(Len(irelays) - 1) :
          \E ipt \in Range(irelays[i].ipts) : ipt.kind = "Faulty"

\* ---- C32

\* the IPT Relays held, each with its planned retirement
ChosenRelays(irs) ==
    { << irs[i].relay, irs[i].planned_retirement >> : i \in 1..Len(irs) }

\* this step is a call of progress() that attempted to select a relay: it
\* added one, or it recorded a failure
SelectionAttempted ==
    /\ pc = "progress"
    /\ \/ ChosenRelays(irelays') \ ChosenRelays(irelays) # {}
       \/ (last_irelay_selection_outcome = "Ok"
           /\ last_irelay_selection_outcome' = "Err")

\* this step is a call of progress() that finds relays still needed: nothing
\* to rotate out, no IPT created, too few good-looking relays, room for more
RelaysStillNeeded ==
    LET g == forget_retired_relays(forget_old_ipts(irelays, now), now)
    IN  /\ pc = "progress"
        /\ rotate_out_idx(irelays, now) = 0
        /\ AllLids(irelays') \subseteq AllLids(irelays)
        /\ n_good_ish_relays(g) < target_n_intro_points
        /\ Len(g) < max_n_intro_relays

\* C32 as stated: a recorded failure of the relay selection bars every
\* further attempt until a directory event is received, and nothing but a
\* directory event lifts it.
C32_RetryOnlyAfterDirEvent ==
    [][ /\ last_irelay_selection_outcome = "Err" => ~SelectionAttempted
        /\ (last_irelay_selection_outcome = "Err"
            /\ last_irelay_selection_outcome' = "Ok")
             => (pc = "wait" /\ selected'.chosen = "dir") ]_vars

\* C32: a recorded failure of the relay selection bars every further attempt
\* until a directory event or a new configuration is received; nothing else
\* lifts it, and once it is lifted the next progress() that finds relays
\* still needed attempts a selection again.
C32_RetryAfterDirEventOrConfig ==
    [][ /\ last_irelay_selection_outcome = "Err" => ~SelectionAttempted
        /\ (last_irelay_selection_outcome = "Err"
            /\ last_irelay_selection_outcome' = "Ok")
             => (pc = "wait" /\ selected'.chosen \in { "dir", "config" })
        /\ (pc = "wait" /\ selected'.chosen \in { "dir", "config" })
             => last_irelay_selection_outcome' = "Ok"
        /\ (RelaysStillNeeded /\ last_irelay_selection_outcome = "Ok")
             => SelectionAttempted ]_vars

\* a selection failed, the directory event the manager then waited for has
\* been received and has lifted the failure, and relays are still needed
C32_Witness ==
    /\ faults >= 1
    /\ selected.chosen = "dir"
    /\ pc = "top"
    /\ last_irelay_selection_outcome = "Ok"
    /\ n_good_ish_relays(irelays) < target_n_intro_points
    /\ Len(irelays) < max_n_intro_relays
    /\ usable_relays(irelays) # {}

\* ---- C33

\* this step is a call of progress() that gets as far as creating an IPT at a
\* relay already chosen
CreationAttempted ==
    /\ pc = "progress"
    /\ rotate_out_idx(irelays, now) = 0
    /\ make_new_ipt_idx(
           forget_retired_relays(forget_old_ipts(irelays, now), now), now) # 0

\* ... and the creation failed with a keystore or replay log error
CreationFailed == CreationAttempted /\ faults' > faults

\* the relay at which this call of progress() creates an IPT
CreationRelay ==
    LET g == forget_retired_relays(forget_old_ipts(irelays, now), now)
    IN  g[make_new_ipt_idx(g, now)].relay

IptByLid(irs, lid) == CHOOSE ipt \in AllIpts(irs) : ipt.lid = lid

\* this step hands the manager a status update for lid that wants to retire
RetireUpdateFor(lid) ==
    /\ pc = "wait"
    /\ selected'.chosen = "status"
    /\ \E update \in { "Establishing", "Good", "Faulty" } :
          irelays' = handle_ipt_status_update(irelays, lid, update, TRUE, now)

\* the relays the manager keeps and that have no current IPT
StayingWithoutCurrent(irs, t) ==
    { i \in 1..Len(irs) : ~should_retire(irs[i], t) /\ current_ipt(irs[i]) = 0 }

\* C34: a status update that wants to retire clears is_current of a current
\* IPT; an IPT that is not current never becomes current again and is in no
\* publish set computed from then on; an IPT is only created with a lid that
\* has no keys yet, and when the progress loop of an iteration returns, every
\* relay not past its planned retirement has a current IPT, unless the
\* creation of an IPT failed in this loop; an IPT that is not current stays
\* while its last descriptor expiry is later than now, and is gone when the
\* loop returns once that expiry is absent or not later than now.
C34_RetireOnRequest ==
    [][ /\ \A lid \in AllLids(irelays) :
             (IptByLid(irelays, lid).is_current /\ RetireUpdateFor(lid))
               => ~IptByLid(irelays', lid).is_current
        /\ \A lid \in AllLids(irelays) \cap AllLids(irelays') :
             ~IptByLid(irelays, lid).is_current
               => ~IptByLid(irelays', lid).is_current
        /\ (pc = "publish" /\ pc' # "publish")
             => \A lid \in Range(publish_set'.ipts.ipts) :
                   lid \in AllLids(irelays) /\ IptByLid(irelays, lid).is_current
        /\ \A lid \in AllLids(irelays') \ AllLids(irelays) :
             /\ ipt_keys(lid) \cap keystore = {}
             /\ IptByLid(irelays', lid).is_current
        /\ (pc = "progress" /\ pc' = "publish" /\ faults' = faults)
             => StayingWithoutCurrent(irelays', now) = {}
        /\ \A lid \in AllLids(irelays) \ AllLids(irelays') :
             LET ipt == IptByLid(irelays, lid)
             IN  /\ ~ipt.is_current
                 /\ \/ ipt.last_descriptor_expiry_including_slop = None
                    \/ ipt.last_descriptor_expiry_including_slop <= now
        /\ (pc = "progress" /\ pc' = "publish")
             => \A ipt \in AllIpts(irelays') :
                   \/ ipt.is_current
                   \/ /\ ipt.last_descriptor_expiry_including_slop # None
                      /\ now < ipt.last_descriptor_expiry_including_slop ]_vars

\* an IPT asked to retire: it is no longer current, it is still held since a
\* descriptor naming it has not expired, it is not in the publish set, and
\* its relay, which is not to retire, has a new current IPT with a later lid
C34_Witness ==
    /\ pc = "wait"
    /\ \E i \in 1..Len(irelays) :
          /\ ~should_retire(irelays[i], now)
          /\ current_ipt(irelays[i]) # 0
          /\ \E old \in Range(irelays[i].ipts) :
                /\ ~old.is_current
                /\ old.last_descriptor_expiry_including_slop # None
                /\ now < old.last_descriptor_expiry_including_slop
                /\ old.lid \notin Range(publish_set.ipts.ipts)
                /\ irelays[i].ipts[current_ipt(irelays[i])].lid > old.lid

\* ---- C35

\* this step hands the manager the status update (update, wants_to_retire)
\* for lid
StatusUpdateFor(lid, update, wants_to_retire) ==
    /\ pc = "wait"
    /\ selected'.chosen = "status"
    /\ irelays' = handle_ipt_status_update(irelays, lid, update,
                                           wants_to_retire, now)

\* the start of establishing is known for this IPT
StartedKnown(ipt) == ipt.kind # "Good" /\ ipt.started # ErrUnit

\* C35: a status update for a lid the manager no longer holds changes
\* nothing; Establishing -> Good records time_to_establish = now - started,
\* or Err when the clock is before started; an update to Faulty keeps the
\* known started, which is unknown when coming from Good; an update to
\* Establishing keeps the known (earliest) started and takes now only when
\* none is known.
C35_StatusTiming ==
    [][ \A lid \in 1..MaxLid, wants_to_retire \in BOOLEAN,
           update \in { "Establishing", "Good", "Faulty" } :
          StatusUpdateFor(lid, update, wants_to_retire) =>
            IF lid \notin AllLids(irelays)
            THEN irelays' = irelays
            ELSE LET old == IptByLid(irelays, lid)
                     new == IptByLid(irelays', lid)
                 IN  /\ new.kind = update
                     /\ (old.kind = "Establishing" /\ update = "Good")
                          => new.time_to_establish =
                               IF now >= old.started
                               THEN now - old.started ELSE ErrUnit
                     /\ update = "Faulty"
                          => new.started = IF old.kind = "Good" THEN ErrUnit
                                           ELSE old.started
                     /\ update = "Establishing"
                          => new.started = IF StartedKnown(old)
                                           THEN old.started ELSE now ]_vars

\* the first status update of a behaviour made an Establishing IPT Good when
\* the clock was before the start of the IPT: Err is recorded
C35_Witness ==
    /\ events = MaxEvents - StatusEvents + 1
    /\ selected.chosen = "status"
    /\ \E ipt \in AllIpts(irelays) :
          ipt.kind = "Good" /\ ipt.time_to_establish = ErrUnit

\* ---- C36

\* the status of the HsDir id in the time period, or "none"
status_in(tps, period, id) ==
    LET p == period_idx(tps, period)
    IN  IF p = 0 THEN "none"
        ELSE IF hs_dir_idx(tps[p].hs_dirs, id) = 0 THEN "none"
        ELSE tps[p].hs_dirs[hs_dir_idx(tps[p].hs_dirs, id)].status

\* C36: when the IPT set is None at the snapshot an upload task takes for
\* an HsDir, the task aborts and changes no status; an aborted task ends
\* without a change of status: an HsDir turns from Dirty to Clean only when a task
\* that took a snapshot with IPTs for each of its HsDirs delivers a Success
\* for it, so the HsDirs of the aborted task stay Dirty, those it had
\* uploaded to successfully included.
C36_NoIptsAbortsPeriod ==
    [][ /\ \A i \in 1..Len(tasks), upload_res \in { "Success", "Failure" } :
             (UploadSnapshotWith(i, upload_res) /\ ~publish_set.ipts.some)
               => /\ has_aborted(tasks'[i])
                  /\ tasks'[i].descs = tasks[i].descs
                  /\ time_periods' = time_periods
        /\ \A i \in 1..Len(tasks) :
             (has_aborted(tasks[i]) /\ tasks' = RemoveAt(tasks, i))
               => time_periods' = time_periods
        /\ \A period \in 1..MaxPeriod, id \in 1..MaxHsDir :
             (/\ status_in(time_periods, period, id) = "Dirty"
              /\ status_in(time_periods', period, id) = "Clean")
               => \E i \in 1..Len(tasks) :
                     /\ UploadResultsSentWith(i)
                     /\ tasks[i].period = period
                     /\ \E d \in Range(tasks[i].descs) :
                           d.relay_ids = id /\ d.upload_res = "Success" ]_vars

\* an upload task has uploaded to one of its HsDirs with success and has
\* then found the IPT set to be None: it has aborted, and that HsDir is Dirty
C36_Witness ==
    \E i \in 1..Len(tasks) :
        /\ has_aborted(tasks[i])
        /\ \E d \in Range(tasks[i].descs) :
              /\ d.upload_res = "Success"
              /\ status_in(time_periods, tasks[i].period, d.relay_ids) = "Dirty"


\* ---- C37

\* a running upload task of the time period holds the outcome Failure of its
\* upload to the HsDir id
UploadFailed(period, id) ==
    \E i \in 1..Len(tasks) :
        /\ ~has_aborted(tasks[i])
        /\ tasks[i].period = period
        /\ \E d \in Range(tasks[i].descs) :
              d.relay_ids = id /\ d.upload_res = "Failure"

\* a running upload task of the time period has the HsDir id still to
\* upload to
UploadPending(period, id) ==
    \E i \in 1..Len(tasks) :
        /\ ~has_aborted(tasks[i])
        /\ tasks[i].period = period
        /\ \E n \in (Len(tasks[i].descs) + 1)..Len(tasks[i].hs_dirs) :
              tasks[i].hs_dirs[n] = id

\* the publisher has IPTs to publish and is not waiting for any
HasIpts == publish_set.ipts.some /\ publish_status.val # "AwaitingIpts"

\* C37: after an upload to an HsDir has failed, the publisher eventually
\* starts another upload to that HsDir, unless the publisher is left
\* without IPTs or the HsDir is no longer Dirty in that time period
C37_FailedUploadRetried ==
    \A period \in 1..MaxPeriod, id \in 1..MaxHsDir :
        (UploadFailed(period, id) /\ HasIpts)
            ~> \/ UploadPending(period, id)
               \/ ~HasIpts
               \/ status_in(time_periods, period, id) # "Dirty"


\* ---- C38

\* C38: a Success of an upload whose descriptor was built before the latest
\* mark_all_dirty does not turn its HsDir from Dirty to Clean
C38_StaleSuccessNotClean ==
    [][ \A i \in 1..Len(tasks) :
          UploadResultsSentWith(i) =>
            \A n \in 1..stale_count(tasks[i]) :
              (/\ tasks[i].descs[n].upload_res = "Success"
               /\ status_in(time_periods, tasks[i].period,
                            tasks[i].descs[n].relay_ids) = "Dirty")
                => status_in(time_periods', tasks[i].period,
                             tasks[i].descs[n].relay_ids) = "Dirty" ]_vars


\* ---- C39

\* C39: while a time period stays among the time periods, its
\* last_successful is never reset and never decreases, whether upload
\* results are handled or the HsDirs are recomputed for a new consensus
C39_LastSuccessfulMonotone ==
    [][ \A i \in 1..Len(time_periods) :
          LET k == period_idx(time_periods', time_periods[i].period)
          IN  (k # 0 /\ time_periods[i].last_successful # None)
                => /\ time_periods'[k].last_successful # None
                   /\ time_periods'[k].last_successful
                          >= time_periods[i].last_successful ]_vars


\* ---- C40

\* the IPT is Good and how long it took to establish is known
EstablishTimeKnown(ipt) ==
    ipt.kind = "Good" /\ ipt.time_to_establish # ErrUnit

\* C40: a Good status update for an IPT that is Good with a known
\* time_to_establish leaves that time_to_establish as it is, and so, when the
\* IPT stays current, a fastest establish time remains known
C40_GoodKeepsEstablishTime ==
    [][ \A lid \in 1..MaxLid, wants_to_retire \in BOOLEAN :
          (/\ StatusUpdateFor(lid, "Good", wants_to_retire)
           /\ lid \in AllLids(irelays)
           /\ EstablishTimeKnown(IptByLid(irelays, lid)))
            => /\ IptByLid(irelays', lid).time_to_establish
                    = IptByLid(irelays, lid).time_to_establish
               /\ (IsCurrent(IptByLid(irelays, lid)) /\ ~wants_to_retire)
                    => fastest_good_establish_time(irelays') # None ]_vars

====
